---------------------------- MODULE Spec2Model ----------------------------
(***************************************************************************)
(* Ring-relay task auction of the fleet simulation:                        *)
(*   MeshSimulator (src/src/agents/mesh_simulator.py)  - the relay fabric  *)
(*   VehicleAgent  (src/src/agents/vehicle_agent.py)   - the bidding agent *)
(*                                                                         *)
(* Python values are modelled as follows.                                  *)
(*   - a dict is a record, a list is a sequence, None is the string        *)
(*     "None"; an optional number (sim_time, due_by) is <<>> for None and  *)
(*     <<n>> for the number n;                                             *)
(*   - a task_id is the sequence of its characters, so that                *)
(*     str.startswith("SOD-") is computed and not assumed;                 *)
(*   - weights, loads and capacities are floats with integral values;      *)
(*   - a bid is a float; it is held exactly, in quarter units, as the two  *)
(*     limbs <<hi, lo>> of hi * Limb + lo, since VERY_HIGH_BID does not    *)
(*     fit a 32-bit integer.  The loads and capacities of AgentProfiles    *)
(*     are such that every product of compute_bid is a whole number of     *)
(*     quarter units and exact in binary floating point.                   *)
(***************************************************************************)
EXTENDS Integers, Sequences, FiniteSets, TLC

VARIABLES
    ring,               \* MeshSimulator.ring
    agents,             \* MeshSimulator.agents: id -> VehicleAgent
    message_queue,      \* MeshSimulator.message_queue
    sod_assign_index,   \* MeshSimulator.sod_assign_index
    announced,          \* history: task_id -> announcements sent by the warehouse
    created,            \* history: every message built by the fabric or an agent
    wd_count,           \* history: task_id -> WINNER_DECISIONs built by the fabric
    completed,          \* history: the messages _start_backtrace was called with
    bid_log,            \* history: the bids computed in _handle_forward_announcement
    handled,            \* history: <<agent, task_id>> -> forward announcements handled
    sod_winners,        \* history: the winners _assign_sod_task chose, in order
    dispatched,         \* history: the entries dispatched by the deliver_messages
                        \*          call that has just returned (<<>> after any other step)
    injected,           \* history: number of sends by callers other than the task source
    own,                \* the message object an outside caller holds after it has
                        \*   handed it to send (<<>> if there is none)
    sent,               \* history: the (sender_id, message, sim_time) of the outside call
                        \*          of send that has just returned (<<>> after any other step)
    quote               \* the last direct call of compute_bid: the agent, task_info and
                        \*   current_time it was called with and the bid it returned
                        \*   (<<>> if there was none)

vars == <<ring, agents, message_queue, sod_assign_index,
          announced, created, wd_count, completed, bid_log, handled,
          sod_winners, dispatched, injected, own, sent, quote>>

-----------------------------------------------------------------------------
(* Bounds *)

MaxAgents == 3
MaxAnnouncements == 2
MaxSodAnnouncements == 4
MaxRemoved == 1

-----------------------------------------------------------------------------
(* Values *)

None == "None"

AllNames == <<"A", "B", "C", "D", "E", "F">>
AgentIds == {AllNames[i] : i \in 1..MaxAgents}

Range(s) == {s[i] : i \in 1..Len(s)}

RECURSIVE SumOver(_, _)
SumOver(f, S) ==
    IF S = {} THEN 0
    ELSE LET x == CHOOSE y \in S : TRUE IN f[x] + SumOver(f, S \ {x})

\* (load, capacity) an agent can be constructed with and loaded to
AgentProfiles == {<<0, 10>>, <<5, 10>>}

\* an optional number: None, or the number n
NoNumber == <<>>
Some(n) == <<n>>

\* The simulation tick the driver passes to the three operations. No handler
\* of the fabric reads it, and an agent reads it only for a task with due_by.
Ticks == {0}
Times == {NoNumber} \cup {Some(t) : t \in Ticks}

SOD_PREFIX == <<"S", "O", "D", "-">>

Tasks ==
    { [task_id |-> <<"T", "3">>, pickup |-> "wh", delivery |-> "e3", weight |-> 3, due_by |-> Some(50)],
      [task_id |-> <<"T", "6">>, pickup |-> "wh", delivery |-> "e6", weight |-> 6, due_by |-> NoNumber],
      [task_id |-> <<"S", "O", "D", "-", "7">>, pickup |-> "wh", delivery |-> "e7", weight |-> 3, due_by |-> NoNumber] }

\* a second start-of-day task, and the tasks of a day with it
SecondSodTask ==
    [task_id |-> <<"S", "O", "D", "-", "8">>, pickup |-> "wh", delivery |-> "e8",
     weight |-> 3, due_by |-> NoNumber]

AllTasks == Tasks \cup {SecondSodTask}

TaskIds == {t.task_id : t \in AllTasks}

-----------------------------------------------------------------------------
(* Bids *)

Limb == 100 * 1000
BidUnit == 2 * 2

VERY_HIGH_BID == <<399999, 99996>>

ToBid(q) == <<q \div Limb, q % Limb>>

BidLess(a, b) == a[1] < b[1] \/ (a[1] = b[1] /\ a[2] < b[2])

BidLeq(a, b) == a = b \/ BidLess(a, b)

BidMin(a, b) == IF BidLess(b, a) THEN b ELSE a

-----------------------------------------------------------------------------
(* VehicleAgent *)

\* VehicleAgent.__init__, with the load the vehicle carries
VehicleAgent(agent_id, load, capacity) ==
    [id |-> agent_id, capacity |-> capacity, load |-> load,
     position |-> [x |-> 0, y |-> 0], battery |-> 100,
     inbox |-> <<>>, assigned_tasks |-> <<>>, completed_tasks |-> 0]

\* isinstance(message, dict) and "message_type" in message
IsMessage(message) == "message_type" \in DOMAIN message

\* VehicleAgent.receive
receive(agent, message) ==
    IF IsMessage(message)
    THEN [agent EXCEPT !.inbox = Append(@, message)]
    ELSE agent

\* has_capacity comparing the task weight alone with the capacity
has_capacity_no_load(agent, task_weight) == task_weight <= agent.capacity

has_capacity(agent, task_weight) == (agent.load + task_weight) <= agent.capacity

\* the placeholder cost, 100.0
_calculate_base_cost == 100

\* twice the multiplier: 0.5, 1.0, 1.5
_calculate_priority_multiplier(weight) ==
    IF weight >= 5 THEN 1
    ELSE IF weight >= 2 THEN 2
    ELSE 3

\* mutant: the load ratio counted once, 1.0 + load / capacity
_calculate_capacity_penalty_single(agent) ==
    IF agent.capacity <= 0 THEN <<1, 1>>
    ELSE <<agent.capacity + agent.load, agent.capacity>>

\* the penalty 1.0 + (load / capacity) * 2.0 as the fraction <<numerator, denominator>>
_calculate_capacity_penalty(agent) ==
    IF agent.capacity <= 0 THEN <<1, 1>>
    ELSE <<agent.capacity + 2 * agent.load, agent.capacity>>

\* mutant: the windows of the time penalty without their upper ends, < for <=
_calculate_time_penalty_open(task_info, base_cost, current_time) ==
    LET deadline == IF "due_by" \in DOMAIN task_info THEN task_info.due_by ELSE NoNumber
    IN  IF deadline = NoNumber THEN 2
        ELSE LET time_remaining10 == 10 * deadline[1] - (10 * current_time + base_cost)
             IN  IF time_remaining10 < 0 THEN 12
                 ELSE IF time_remaining10 < 1000 THEN 6
                 ELSE IF time_remaining10 < 3000 THEN 3
                 ELSE 2

\* twice the penalty: 6.0, 3.0, 1.5, 1.0; task_info is a record and
\* task_info.get("due_by") is None when it has no such field
_calculate_time_penalty(task_info, base_cost, current_time) ==
    LET deadline == IF "due_by" \in DOMAIN task_info THEN task_info.due_by ELSE NoNumber
    IN  IF deadline = NoNumber THEN 2
        ELSE LET \* ten times time_remaining = deadline - (current_time + base_cost / 10.0)
                 time_remaining10 == 10 * deadline[1] - (10 * current_time + base_cost)
             IN  IF time_remaining10 <= 0 THEN 12
                 ELSE IF time_remaining10 <= 1000 THEN 6
                 ELSE IF time_remaining10 <= 3000 THEN 3
                 ELSE 2

\* VehicleAgent.compute_bid; network_info.get("current_time", 0) is current_time
compute_bid(agent, task_info, current_time) ==
    IF ~has_capacity(agent, task_info.weight) THEN VERY_HIGH_BID
    ELSE LET base_cost == _calculate_base_cost
             priority_mult == _calculate_priority_multiplier(task_info.weight)
             capacity_penalty == _calculate_capacity_penalty(agent)
             time_penalty == _calculate_time_penalty(task_info, base_cost, current_time)
             \* base_cost * priority_mult * capacity_penalty * time_penalty, in quarter units
             bid == ToBid((base_cost * priority_mult * time_penalty * capacity_penalty[1])
                          \div capacity_penalty[2])
         IN  IF ~BidLess(ToBid(BidUnit * base_cost), VERY_HIGH_BID) THEN VERY_HIGH_BID
             ELSE BidMin(bid, VERY_HIGH_BID)

\* dict.get(key, default)
Get(d, key, default) == IF key \in DOMAIN d THEN d[key] ELSE default


\* An object that other code still holds carries the identity of the dict
\* (obj) and of the list and dict nested in it (path_obj, best_obj); objects
\* with the same identity are one object.
IdentityTags == {"obj", "path_obj", "best_obj"}

\* copy.deepcopy: the same contents in objects of their own
deepcopy(message) == [k \in DOMAIN message \ IdentityTags |-> message[k]]

\* send queueing the message twice
send_twice(queue, sender_id, message, sim_time) ==
    IF ~IsMessage(message) THEN queue
    ELSE Append(Append(queue, <<sender_id, deepcopy(message), sim_time>>),
                <<sender_id, deepcopy(message), sim_time>>)

\* mutant: send also refuses the kinds the fabric does not dispatch
send_recognized_only(queue, sender_id, message, sim_time) ==
    IF ~IsMessage(message) THEN queue
    ELSE IF message.message_type \notin
              {"TASK_ANNOUNCEMENT", "FORWARD_ANNOUNCEMENT", "WINNER_DECISION"}
         THEN queue
         ELSE Append(queue, <<sender_id, deepcopy(message), sim_time>>)

\* mutant: send puts the entry at the head of the queue
send_at_head(queue, sender_id, message, sim_time) ==
    IF ~IsMessage(message) THEN queue
    ELSE <<<<sender_id, deepcopy(message), sim_time>>>> \o queue

\* mutant: send queues dict(message), a copy of the outer dict only
send_shallow_copy(queue, sender_id, message, sim_time) ==
    IF ~IsMessage(message) THEN queue
    ELSE Append(queue, <<sender_id, [k \in DOMAIN message \ {"obj"} |-> message[k]],
                         sim_time>>)

\* MeshSimulator.send: the queue after send(sender_id, message, sim_time)
send(queue, sender_id, message, sim_time) ==
    IF ~IsMessage(message) THEN queue
    ELSE Append(queue, <<sender_id, deepcopy(message), sim_time>>)

\* The agent-side handlers work on a record w:
\*   agent          the VehicleAgent running the handler
\*   message_queue  the fabric's queue, which mesh.send appends to
\*   created, bid_log, handled   the history variables

\* the comparison turned round: the higher bid wins
better_bid_greater(bid, current_best) == BidLess(current_best, bid)

\* no comparison: the last bidder always takes over
better_bid_always(bid, current_best) == TRUE

\* the comparison with <= : a tie goes to the later bidder
better_bid_or_equal(bid, current_best) == BidLeq(bid, current_best)

\* the comparison of a new bid with the best one carried by the message
better_bid(bid, current_best) == BidLess(bid, current_best)

\* the agent appending itself without looking for itself in path
extend_path_always(path, agent_id) == Append(path, agent_id)

\* if self.id not in path: path = path + [self.id]
extend_path(path, agent_id) ==
    IF agent_id \notin Range(path) THEN Append(path, agent_id) ELSE path

\* VehicleAgent._handle_forward_announcement
agent_handle_forward_announcement(w, msg, current_time) ==
    LET self == w.agent
        task_id == Get(msg, "task_id", <<>>)
        pickup == Get(msg, "pickup", "")
        delivery == Get(msg, "delivery", "")
        weight == Get(msg, "weight", 0)
        path == Get(msg, "path", <<>>)
        bid == compute_bid(self, [task_id |-> task_id, pickup |-> pickup,
                                  delivery |-> delivery, weight |-> weight],
                           current_time)
        best_in == Get(msg, "best", [bid |-> VERY_HIGH_BID, holder |-> None])
        current_best == Get(best_in, "bid", VERY_HIGH_BID)
        best == IF better_bid(bid, current_best)
                THEN [bid |-> bid, holder |-> self.id]
                ELSE best_in
        new_path == extend_path(path, self.id)
        forward_msg == [message_type |-> "FORWARD_ANNOUNCEMENT",
                        task_id |-> task_id,
                        pickup |-> pickup,
                        delivery |-> delivery,
                        weight |-> weight,
                        path |-> new_path,
                        best |-> best]
    IN  [w EXCEPT
            !.message_queue = send(@, self.id, forward_msg, current_time),
            !.created = @ \cup {[by |-> self.id, msg |-> forward_msg]},
            !.bid_log = @ \cup {[agent |-> self.id, task_id |-> task_id, bid |-> bid,
                                 best_in |-> best_in, best_out |-> best,
                                 path |-> path, weight |-> weight,
                                 load |-> self.load, capacity |-> self.capacity]},
            !.handled = [@ EXCEPT ![<<self.id, task_id>>] = @ + 1]]

\* any(t[0] == task_id for t in self.assigned_tasks)
has_task(assigned_tasks, task_id) ==
    \E i \in 1..Len(assigned_tasks) : assigned_tasks[i][1] = task_id

\* mutant: committing a task puts its weight on the vehicle
agent_handle_winner_decision_loads(w, msg) ==
    LET self == w.agent
        winner == Get(msg, "winner", "")
        task_id == Get(msg, "task_id", <<>>)
        delivery == Get(msg, "delivery", "")
    IN  IF winner = self.id /\ ~has_task(self.assigned_tasks, task_id)
        THEN [w EXCEPT !.agent.assigned_tasks = Append(@, <<task_id, delivery>>),
                       !.agent.load = @ + Get(msg, "weight", 0)]
        ELSE w

\* _handle_winner_decision without the test winner == self.id
agent_handle_winner_decision_any(w, msg) ==
    LET self == w.agent
        task_id == Get(msg, "task_id", <<>>)
        delivery == Get(msg, "delivery", "")
    IN  IF ~has_task(self.assigned_tasks, task_id)
        THEN [w EXCEPT !.agent.assigned_tasks = Append(@, <<task_id, delivery>>)]
        ELSE w

\* mutant: _handle_winner_decision without the test for an existing assignment
agent_handle_winner_decision_again(w, msg) ==
    LET self == w.agent
        winner == Get(msg, "winner", "")
        task_id == Get(msg, "task_id", <<>>)
        delivery == Get(msg, "delivery", "")
    IN  IF winner = self.id
        THEN [w EXCEPT !.agent.assigned_tasks = Append(@, <<task_id, delivery>>)]
        ELSE w

\* VehicleAgent._handle_winner_decision
agent_handle_winner_decision(w, msg) ==
    LET self == w.agent
        winner == Get(msg, "winner", "")
        task_id == Get(msg, "task_id", <<>>)
        delivery == Get(msg, "delivery", "")
    IN  IF winner = self.id /\ ~has_task(self.assigned_tasks, task_id)
        THEN [w EXCEPT !.agent.assigned_tasks = Append(@, <<task_id, delivery>>)]
        ELSE w

\* mutant: _handle_task_announcement takes the announced task as assigned
agent_handle_task_announcement_assigns(w, msg, current_time) ==
    [w EXCEPT !.agent.assigned_tasks =
        Append(@, <<Get(msg, "task_id", <<>>), Get(msg, "delivery", "")>>)]

\* VehicleAgent._handle_task_announcement
agent_handle_task_announcement(w, msg, current_time) == w

\* VehicleAgent._handle_message
agent_handle_message(w, msg, current_time) ==
    LET msg_type == Get(msg, "message_type", None)
    IN  IF msg_type = "TASK_ANNOUNCEMENT"
        THEN agent_handle_task_announcement(w, msg, current_time)
        ELSE IF msg_type = "FORWARD_ANNOUNCEMENT"
        THEN agent_handle_forward_announcement(w, msg, current_time)
        ELSE IF msg_type = "WINNER_DECISION"
        THEN agent_handle_winner_decision(w, msg)
        ELSE w

\* mutant: process_messages takes the newest message first, pop() for pop(0)
RECURSIVE process_messages_newest_first(_, _)
process_messages_newest_first(w0, current_time) ==
    CHOOSE result \in
        { IF w.agent.inbox = <<>> THEN w
          ELSE process_messages_newest_first(
                   agent_handle_message(
                       [w EXCEPT !.agent.inbox = SubSeq(@, 1, Len(@) - 1)],
                       w.agent.inbox[Len(w.agent.inbox)], current_time),
                   current_time) : w \in {w0} } : TRUE

\* mutant: process_messages stops, without popping, at a WINNER_DECISION that
\* names another agent
RECURSIVE process_messages_stops_at_decision(_, _)
process_messages_stops_at_decision(w0, current_time) ==
    CHOOSE result \in
        { IF w.agent.inbox = <<>> THEN w
          ELSE IF /\ Get(Head(w.agent.inbox), "message_type", None) = "WINNER_DECISION"
                  /\ Get(Head(w.agent.inbox), "winner", "") # w.agent.id
               THEN w
               ELSE process_messages_stops_at_decision(
                        agent_handle_message([w EXCEPT !.agent.inbox = Tail(@)],
                                             Head(w.agent.inbox), current_time),
                        current_time) : w \in {w0} } : TRUE

\* VehicleAgent.process_messages: while self.inbox: msg = self.inbox.pop(0); handle
\* (each round takes the record as a value, w, so that it is computed once)
RECURSIVE process_messages(_, _)
process_messages(w0, current_time) ==
    CHOOSE result \in
        { IF w.agent.inbox = <<>> THEN w
          ELSE process_messages(
                   agent_handle_message([w EXCEPT !.agent.inbox = Tail(@)],
                                        Head(w.agent.inbox), current_time),
                   current_time) : w \in {w0} } : TRUE

-----------------------------------------------------------------------------
(* MeshSimulator *)

\* The fabric-side handlers work on a record f:
\*   agents, sod_assign_index      the fabric's fields
\*   created, wd_count, completed, sod_winners, dispatched  the history variables

\* mutant: a message for an agent that is not registered goes to every agent
deliver_to_or_all(f, receiver, message) ==
    IF receiver \in DOMAIN f.agents
    THEN [f EXCEPT !.agents[receiver] = receive(@, message)]
    ELSE [f EXCEPT !.agents = [a \in DOMAIN @ |-> receive(@[a], message)]]

\* if receiver in self.agents: self.agents[receiver].receive(message)
deliver_to(f, receiver, message) ==
    IF receiver \in DOMAIN f.agents
    THEN [f EXCEPT !.agents[receiver] = receive(@, message)]
    ELSE f

\* str.startswith
startswith(str, prefix) ==
    Len(str) >= Len(prefix) /\ SubSeq(str, 1, Len(prefix)) = prefix

\* mutant: the index is advanced before the winner is taken
sod_winner_index_next(index, ring_len) == ((index + 1) % ring_len) + 1

\* mutant: the index stops at the last ring member instead of wrapping
sod_winner_index_no_wrap(index, ring_len) ==
    IF index < ring_len THEN index + 1 ELSE ring_len

\* the position of the round-robin winner in the ring, from 1
sod_winner_index(index, ring_len) == (index % ring_len) + 1

\* mutant: _assign_sod_task advances the index before it looks at the ring
_assign_sod_task_count_first(f, msg, current_time) ==
    IF ring = <<>> THEN [f EXCEPT !.sod_assign_index = @ + 1]
    ELSE LET winner == ring[sod_winner_index(f.sod_assign_index, Len(ring))]
             winner_msg == [message_type |-> "WINNER_DECISION",
                            task_id |-> Get(msg, "task_id", None),
                            winner |-> winner,
                            pickup |-> Get(msg, "pickup", None),
                            delivery |-> Get(msg, "delivery", None),
                            weight |-> Get(msg, "weight", None),
                            best |-> [bid |-> ToBid(0), holder |-> winner]]
             f1 == [f EXCEPT
                      !.sod_assign_index = @ + 1,
                      !.sod_winners = Append(@, winner),
                      !.created = @ \cup {[by |-> "fabric", msg |-> winner_msg]},
                      !.wd_count = [@ EXCEPT ![winner_msg.task_id] = @ + 1]]
         IN  deliver_to(f1, winner, winner_msg)

\* MeshSimulator._assign_sod_task
_assign_sod_task(f, msg, current_time) ==
    IF ring = <<>> THEN f
    ELSE LET winner == ring[sod_winner_index(f.sod_assign_index, Len(ring))]
             winner_msg == [message_type |-> "WINNER_DECISION",
                            task_id |-> Get(msg, "task_id", None),
                            winner |-> winner,
                            pickup |-> Get(msg, "pickup", None),
                            delivery |-> Get(msg, "delivery", None),
                            weight |-> Get(msg, "weight", None),
                            best |-> [bid |-> ToBid(0), holder |-> winner]]
             f1 == [f EXCEPT
                      !.sod_assign_index = @ + 1,
                      !.sod_winners = Append(@, winner),
                      !.created = @ \cup {[by |-> "fabric", msg |-> winner_msg]},
                      !.wd_count = [@ EXCEPT ![winner_msg.task_id] = @ + 1]]
         IN  deliver_to(f1, winner, winner_msg)

\* a traversal starting with the warehouse as the holder of the best bid
seed_best_warehouse == [bid |-> VERY_HIGH_BID, holder |-> "warehouse"]

\* the best bid a traversal starts with
seed_best == [bid |-> VERY_HIGH_BID, holder |-> None]

\* mutant: the seed announcement takes the due_by of the task along
_forward_to_ring_with_due_by(f, msg, current_time) ==
    IF ring = <<>> THEN f
    ELSE LET path == <<"warehouse">>
             first_agent == ring[1]
             forward_msg == [message_type |-> "FORWARD_ANNOUNCEMENT",
                             task_id |-> Get(msg, "task_id", <<>>),
                             pickup |-> Get(msg, "pickup", ""),
                             delivery |-> Get(msg, "delivery", ""),
                             weight |-> Get(msg, "weight", 0),
                             due_by |-> Get(msg, "due_by", NoNumber),
                             path |-> Append(path, first_agent),
                             best |-> seed_best]
             f1 == [f EXCEPT !.created = @ \cup {[by |-> "fabric", msg |-> forward_msg]}]
         IN  deliver_to(f1, first_agent, forward_msg)

\* MeshSimulator._forward_to_ring
_forward_to_ring(f, msg, current_time) ==
    IF ring = <<>> THEN f
    ELSE LET path == <<"warehouse">>
             first_agent == ring[1]
             forward_msg == [message_type |-> "FORWARD_ANNOUNCEMENT",
                             task_id |-> Get(msg, "task_id", <<>>),
                             pickup |-> Get(msg, "pickup", ""),
                             delivery |-> Get(msg, "delivery", ""),
                             weight |-> Get(msg, "weight", 0),
                             path |-> Append(path, first_agent),
                             best |-> seed_best]
             f1 == [f EXCEPT !.created = @ \cup {[by |-> "fabric", msg |-> forward_msg]}]
         IN  deliver_to(f1, first_agent, forward_msg)

\* MeshSimulator._handle_warehouse_announcement
_handle_warehouse_announcement(f, msg, current_time) ==
    LET task_id == Get(msg, "task_id", <<>>)
    IN  IF startswith(task_id, SOD_PREFIX)
        THEN _assign_sod_task(f, msg, current_time)
        ELSE _forward_to_ring(f, msg, current_time)

\* list.index: the first position of x in s, from 1
IndexOf(s, x) == CHOOSE i \in 1..Len(s) : s[i] = x /\ \A j \in 1..(i - 1) : s[j] # x

\* _find_next_in_ring starting the scan two places after the current agent
_find_next_in_ring_skip(current, path) ==
    IF current = "warehouse" \/ current \notin Range(ring) THEN None
    ELSE LET idx == IndexOf(ring, current) - 1
             candidate(offset) == ring[((idx + offset) % Len(ring)) + 1]
         IN  IF \E offset \in 2..Len(ring) : candidate(offset) \notin Range(path)
             THEN candidate(CHOOSE offset \in 2..Len(ring) :
                               /\ candidate(offset) \notin Range(path)
                               /\ \A o \in 2..(offset - 1) : candidate(o) \in Range(path))
             ELSE None

\* MeshSimulator._find_next_in_ring
_find_next_in_ring(current, path) ==
    IF current = "warehouse"
    THEN IF \E i \in 1..Len(ring) : ring[i] \notin Range(path)
         THEN ring[CHOOSE i \in 1..Len(ring) :
                      /\ ring[i] \notin Range(path)
                      /\ \A j \in 1..(i - 1) : ring[j] \in Range(path)]
         ELSE None
    ELSE IF current \notin Range(ring) THEN None
    ELSE LET idx == IndexOf(ring, current) - 1
             candidate(offset) == ring[((idx + offset) % Len(ring)) + 1]
         IN  IF \E offset \in 1..Len(ring) : candidate(offset) \notin Range(path)
             THEN candidate(CHOOSE offset \in 1..Len(ring) :
                               /\ candidate(offset) \notin Range(path)
                               /\ \A o \in 1..(offset - 1) : candidate(o) \in Range(path))
             ELSE None

\* list(reversed(s))
Reversed(s) == [i \in 1..Len(s) |-> s[Len(s) + 1 - i]]

\* mutant: the route runs from the holder back to the first ring agent
backtrace_route_to_front(path, winner) ==
    IF winner \in Range(path)
    THEN Reversed(SubSeq(path, 2, IndexOf(path, winner)))
    ELSE <<winner>>

\* the route of the winner message: list(reversed(path[idx:])), or [winner]
backtrace_route(path, winner) ==
    IF winner \in Range(path)
    THEN Reversed(SubSeq(path, IndexOf(path, winner), Len(path)))
    ELSE <<winner>>

\* mutant: the relay hands the message to the first element of the route as well
RECURSIVE relay_from_first(_, _, _, _)
relay_from_first(f0, backtrace_path, winner_msg, i) ==
    CHOOSE result \in
        { IF i > Len(backtrace_path) THEN f
          ELSE relay_from_first(deliver_to(f, backtrace_path[i], winner_msg),
                                backtrace_path, winner_msg, i + 1) : f \in {f0} } : TRUE

\* for i in range(len(backtrace_path) - 1): deliver to backtrace_path[i + 1]
RECURSIVE relay(_, _, _, _)
relay(f0, backtrace_path, winner_msg, i) ==
    CHOOSE result \in
        { IF i >= Len(backtrace_path) THEN f
          ELSE relay(deliver_to(f, backtrace_path[i + 1], winner_msg),
                     backtrace_path, winner_msg, i + 1) : f \in {f0} } : TRUE

\* MeshSimulator._start_backtrace
_start_backtrace(f, msg, current_time) ==
    LET best == Get(msg, "best", [bid |-> VERY_HIGH_BID, holder |-> None])
        winner == Get(best, "holder", None)
        f0 == [f EXCEPT !.completed = @ \cup {msg}]
    IN  IF winner = None \/ winner = "" THEN f0
        ELSE LET path == Get(msg, "path", <<>>)
                 backtrace_path == backtrace_route(path, winner)
                 winner_msg == [message_type |-> "WINNER_DECISION",
                                task_id |-> Get(msg, "task_id", None),
                                winner |-> winner,
                                pickup |-> Get(msg, "pickup", None),
                                delivery |-> Get(msg, "delivery", None),
                                weight |-> Get(msg, "weight", None),
                                best |-> best,
                                backtrace_route |-> backtrace_path]
                 f1 == [f0 EXCEPT
                          !.created = @ \cup {[by |-> "fabric", msg |-> winner_msg]},
                          !.wd_count = [@ EXCEPT ![winner_msg.task_id] = @ + 1]]
             IN  relay(f1, backtrace_path, winner_msg, 1)

\* mutant: the backtrace starts as soon as the announcement has a holder
_handle_forward_announcement_eager(f, sender, msg, current_time) ==
    LET path == Get(msg, "path", <<>>)
    IN  IF path = <<>> THEN f
        ELSE LET last_agent == path[Len(path)]
                 next_agent == _find_next_in_ring(last_agent, path)
             IN  IF next_agent = None \/ msg.best.holder # None
                 THEN _start_backtrace(f, msg, current_time)
                 ELSE LET forward_msg == [deepcopy(msg) EXCEPT
                                             !.path = Append(path, next_agent)]
                          f1 == [f EXCEPT !.created =
                                    @ \cup {[by |-> "fabric", msg |-> forward_msg]}]
                      IN  deliver_to(f1, next_agent, forward_msg)

\* MeshSimulator._handle_forward_announcement
_handle_forward_announcement(f, sender, msg, current_time) ==
    LET path == Get(msg, "path", <<>>)
    IN  IF path = <<>> THEN f
        ELSE LET last_agent == path[Len(path)]
                 next_agent == _find_next_in_ring(last_agent, path)
             IN  IF next_agent = None
                 THEN _start_backtrace(f, msg, current_time)
                 ELSE LET forward_msg == [deepcopy(msg) EXCEPT
                                             !.path = Append(path, next_agent)]
                          f1 == [f EXCEPT !.created =
                                    @ \cup {[by |-> "fabric", msg |-> forward_msg]}]
                      IN  deliver_to(f1, next_agent, forward_msg)

\* mutant: the decision goes to every registered agent
_handle_winner_decision_broadcast(f, msg) ==
    [f EXCEPT !.agents = [a \in DOMAIN @ |-> receive(@[a], msg)]]

\* MeshSimulator._handle_winner_decision
_handle_winner_decision(f, msg) ==
    deliver_to(f, Get(msg, "winner", ""), msg)

\* mutant: a TASK_ANNOUNCEMENT is handled whoever sent it
_process_message_any_sender(f, sender, msg, current_time) ==
    LET msg_type == Get(msg, "message_type", None)
    IN  IF msg_type = "TASK_ANNOUNCEMENT"
        THEN _handle_warehouse_announcement(f, msg, current_time)
        ELSE IF msg_type = "FORWARD_ANNOUNCEMENT"
        THEN _handle_forward_announcement(f, sender, msg, current_time)
        ELSE IF msg_type = "WINNER_DECISION"
        THEN _handle_winner_decision(f, msg)
        ELSE f

\* MeshSimulator._process_message
_process_message(f, sender, msg, current_time) ==
    LET msg_type == Get(msg, "message_type", None)
    IN  IF msg_type = "TASK_ANNOUNCEMENT" /\ sender = "warehouse"
        THEN _handle_warehouse_announcement(f, msg, current_time)
        ELSE IF msg_type = "FORWARD_ANNOUNCEMENT"
        THEN _handle_forward_announcement(f, sender, msg, current_time)
        ELSE IF msg_type = "WINNER_DECISION"
        THEN _handle_winner_decision(f, msg)
        ELSE f

\* mutant: deliver_messages takes the newest entry first, pop() for pop(0)
RECURSIVE deliver_messages_newest_first(_, _, _)
deliver_messages_newest_first(f0, queue, sim_time) ==
    CHOOSE result \in
        { IF queue = <<>> THEN f
          ELSE LET entry == queue[Len(queue)]
                   sender == entry[1]
                   msg == entry[2]
                   msg_time == entry[3]
                   current_time == IF msg_time # NoNumber THEN msg_time[1] ELSE sim_time
               IN  deliver_messages_newest_first(
                       _process_message([f EXCEPT !.dispatched = Append(@, <<sender, msg>>)],
                                        sender, msg, current_time),
                       SubSeq(queue, 1, Len(queue) - 1), sim_time) : f \in {f0} } : TRUE

\* MeshSimulator.deliver_messages: while self.message_queue: pop(0) and process.
\* No fabric handler appends to message_queue, so the loop runs over the
\* queue as it stands at the call.
\* (each round takes the record as a value, f, so that it is computed once)
RECURSIVE deliver_messages(_, _, _)
deliver_messages(f0, queue, sim_time) ==
    CHOOSE result \in
        { IF queue = <<>> THEN f
          ELSE LET sender == Head(queue)[1]
                   msg == Head(queue)[2]
                   msg_time == Head(queue)[3]
                   current_time == IF msg_time # NoNumber THEN msg_time[1] ELSE sim_time
               IN  deliver_messages(
                       _process_message([f EXCEPT !.dispatched = Append(@, <<sender, msg>>)],
                                        sender, msg, current_time),
                       Tail(queue), sim_time) : f \in {f0} } : TRUE

-----------------------------------------------------------------------------
(* The state machine *)

\* MeshSimulator.__init__ over a population of 0..MaxAgents vehicles: the ring
\* is the key order of the agents dict, the queue is empty, the index is 0.
\* Each vehicle is as constructed, carrying one of the loads of AgentProfiles.
Init ==
    /\ \E n \in 0..MaxAgents :
         /\ ring = [i \in 1..n |-> AllNames[i]]
         /\ \E profile \in [{AllNames[i] : i \in 1..n} -> AgentProfiles] :
              agents = [a \in {AllNames[i] : i \in 1..n} |->
                           VehicleAgent(a, profile[a][1], profile[a][2])]
    /\ message_queue = <<>>
    /\ sod_assign_index = 0
    /\ announced = [t \in TaskIds |-> 0]
    /\ created = {}
    /\ wd_count = [t \in TaskIds |-> 0]
    /\ completed = {}
    /\ bid_log = {}
    /\ handled = [p \in AgentIds \X TaskIds |-> 0]
    /\ sod_winners = <<>>
    /\ dispatched = <<>>
    /\ injected = 0
    /\ sent = <<>>
    /\ own = <<>>
    /\ quote = <<>>

\* the TASK_ANNOUNCEMENT of a task
TaskAnnouncement(task) ==
    [message_type |-> "TASK_ANNOUNCEMENT", task_id |-> task.task_id,
     pickup |-> task.pickup, delivery |-> task.delivery,
     weight |-> task.weight, due_by |-> task.due_by]

\* The task source calls mesh.send("warehouse", announcement, sim_time), at most
\* MaxAnnouncements times in a run.
Announce(task, sim_time) ==
    /\ SumOver(announced, TaskIds) + injected < MaxAnnouncements
    /\ message_queue' = send(message_queue, "warehouse", TaskAnnouncement(task), sim_time)
    /\ announced' = [announced EXCEPT ![task.task_id] = @ + 1]
    /\ sent' = <<"warehouse", TaskAnnouncement(task), sim_time>>
    /\ dispatched' = <<>>
    /\ UNCHANGED <<quote, own, ring, agents, sod_assign_index, created, wd_count, completed,
                   bid_log, handled, sod_winners, injected>>

\* mesh.deliver_messages(sim_time); with an empty queue the call changes nothing
DeliverMessages(sim_time) ==
    LET f == deliver_messages([agents |-> agents,
                               sod_assign_index |-> sod_assign_index,
                               created |-> created,
                               wd_count |-> wd_count,
                               completed |-> completed,
                               sod_winners |-> sod_winners,
                               dispatched |-> <<>>],
                              message_queue, sim_time)
    IN  /\ message_queue # <<>>
        /\ message_queue' = <<>>
        /\ agents' = f.agents
        /\ sod_assign_index' = f.sod_assign_index
        /\ created' = f.created
        /\ wd_count' = f.wd_count
        /\ completed' = f.completed
        /\ sod_winners' = f.sod_winners
        /\ dispatched' = f.dispatched
        /\ sent' = <<>>
        /\ UNCHANGED <<quote, own, ring, announced, bid_log, handled, injected>>

\* agents[a].process_messages(current_time, mesh); with an empty inbox the call
\* changes nothing
ProcessMessages(a, current_time) ==
    LET w == process_messages([agent |-> agents[a],
                               message_queue |-> message_queue,
                               created |-> created,
                               bid_log |-> bid_log,
                               handled |-> handled],
                              current_time)
    IN  /\ agents[a].inbox # <<>>
        /\ agents' = [agents EXCEPT ![a] = w.agent]
        /\ message_queue' = w.message_queue
        /\ created' = w.created
        /\ bid_log' = w.bid_log
        /\ handled' = w.handled
        /\ dispatched' = <<>>
        /\ sent' = <<>>
        /\ UNCHANGED <<quote, own, ring, sod_assign_index, announced, wd_count, completed,
                       sod_winners, injected>>

Next ==
    \/ \E task \in Tasks, sim_time \in Times : Announce(task, sim_time)
    \/ \E sim_time \in Ticks : DeliverMessages(sim_time)
    \/ \E a \in DOMAIN agents, current_time \in Ticks : ProcessMessages(a, current_time)

Spec == Init /\ [][Next]_vars

\* The driver calls deliver_messages and every agent's process_messages again
\* and again.
FairSpec ==
    /\ Spec
    /\ WF_vars(\E sim_time \in Ticks : DeliverMessages(sim_time))
    /\ \A a \in AgentIds :
         WF_vars(a \in DOMAIN agents /\ \E current_time \in Ticks : ProcessMessages(a, current_time))

\* The task source announces start-of-day tasks only: mesh.send("warehouse",
\* announcement, sim_time) with a task_id that starts with SOD-, at most
\* MaxSodAnnouncements times in a run.
AnnounceSod(task, sim_time) ==
    /\ startswith(task.task_id, SOD_PREFIX)
    /\ SumOver(announced, TaskIds) + injected < MaxSodAnnouncements
    /\ message_queue' = send(message_queue, "warehouse", TaskAnnouncement(task), sim_time)
    /\ announced' = [announced EXCEPT ![task.task_id] = @ + 1]
    /\ sent' = <<"warehouse", TaskAnnouncement(task), sim_time>>
    /\ dispatched' = <<>>
    /\ UNCHANGED <<quote, own, ring, agents, sod_assign_index, created, wd_count, completed,
                   bid_log, handled, sod_winners, injected>>

SodNext ==
    \/ \E task \in Tasks, sim_time \in Times : AnnounceSod(task, sim_time)
    \/ \E sim_time \in Ticks : DeliverMessages(sim_time)
    \/ \E a \in DOMAIN agents, current_time \in Ticks : ProcessMessages(a, current_time)

SodSpec == Init /\ [][SodNext]_vars

\* The task source announces every task of the day at most once: the task_ids
\* of a run are distinct.
AnnounceOnce(task, sim_time) ==
    /\ announced[task.task_id] = 0
    /\ Announce(task, sim_time)

AuctionNext ==
    \/ \E task \in AllTasks, sim_time \in Times : AnnounceOnce(task, sim_time)
    \/ \E sim_time \in Ticks : DeliverMessages(sim_time)
    \/ \E a \in DOMAIN agents, current_time \in Ticks : ProcessMessages(a, current_time)

AuctionSpec == Init /\ [][AuctionNext]_vars

\* The fleet of the worked ring scenario: three agents whose (load, capacity)
\* make compute_bid return 100.0 for A and 50.0 for B on the task of weight 6,
\* and make has_capacity fail for C on it.
ScenarioProfiles == [A |-> <<10, 20>>, B |-> <<0, 10>>, C |-> <<5, 10>>]

InitScenario ==
    /\ ring = <<"A", "B", "C">>
    /\ agents = [a \in {"A", "B", "C"} |->
                    VehicleAgent(a, ScenarioProfiles[a][1], ScenarioProfiles[a][2])]
    /\ message_queue = <<>>
    /\ sod_assign_index = 0
    /\ announced = [t \in TaskIds |-> 0]
    /\ created = {}
    /\ wd_count = [t \in TaskIds |-> 0]
    /\ completed = {}
    /\ bid_log = {}
    /\ handled = [p \in AgentIds \X TaskIds |-> 0]
    /\ sod_winners = <<>>
    /\ dispatched = <<>>
    /\ injected = 0
    /\ sent = <<>>
    /\ own = <<>>
    /\ quote = <<>>

ScenarioSpec == InitScenario /\ [][Next]_vars

\* What other callers hand to mesh.send: a message of a kind the fabric does not
\* dispatch, a WINNER_DECISION without task_id, a dict without message_type, and
\* a complete TASK_ANNOUNCEMENT.
OtherMessages ==
    { [message_type |-> "STATUS_REPORT", task_id |-> <<"T", "3">>],
      [message_type |-> "WINNER_DECISION", winner |-> "A",
       pickup |-> "wh", delivery |-> "e3", weight |-> 3],
      [task_id |-> <<"T", "3">>, pickup |-> "wh", delivery |-> "e3", weight |-> 3],
      [message_type |-> "TASK_ANNOUNCEMENT", task_id |-> <<"T", "3">>,
       pickup |-> "wh", delivery |-> "e3", weight |-> 3, due_by |-> NoNumber],
      [message_type |-> "TASK_ANNOUNCEMENT", task_id |-> <<"S", "O", "D", "-", "7">>,
       pickup |-> "wh", delivery |-> "e7", weight |-> 3, due_by |-> NoNumber] }

\* A caller other than the task source calls mesh.send("dispatcher", message,
\* sim_time); these calls count towards the MaxAnnouncements sends of a run.
SendOther(message, sim_time) ==
    /\ SumOver(announced, TaskIds) + injected < MaxAnnouncements
    /\ message_queue' = send(message_queue, "dispatcher", message, sim_time)
    /\ injected' = injected + 1
    /\ sent' = <<"dispatcher", message, sim_time>>
    /\ dispatched' = <<>>
    /\ UNCHANGED <<quote, own, ring, agents, sod_assign_index, announced, created, wd_count,
                   completed, bid_log, handled, sod_winners>>

SendNext ==
    \/ Next
    \/ \E message \in OtherMessages, sim_time \in Times : SendOther(message, sim_time)

\* the scenario fleet, with sends by other callers as well
SendSpec == InitScenario /\ [][SendNext]_vars

\* mutant: the ring follows the keys of the dict, so the agent leaves it too
Unregister_from_ring(a) ==
    /\ Len(ring) - Cardinality(DOMAIN agents) < MaxRemoved
    /\ agents' = [b \in DOMAIN agents \ {a} |-> agents[b]]
    /\ ring' = SelectSeq(ring, LAMBDA b : b # a)
    /\ dispatched' = <<>>
    /\ sent' = <<>>
    /\ UNCHANGED <<quote, own, message_queue, sod_assign_index, announced, created,
                   wd_count, completed, bid_log, handled, sod_winners, injected>>

\* MeshSimulator.agents is the caller's dict, not a copy, and the ring is taken
\* from its keys once, at construction: the caller removes agent a from the
\* dict, and the ring still names it.  At most MaxRemoved agents are removed.
Unregister(a) ==
    /\ Len(ring) - Cardinality(DOMAIN agents) < MaxRemoved
    /\ agents' = [b \in DOMAIN agents \ {a} |-> agents[b]]
    /\ dispatched' = <<>>
    /\ sent' = <<>>
    /\ UNCHANGED <<quote, own, ring, message_queue, sod_assign_index, announced, created,
                   wd_count, completed, bid_log, handled, sod_winners, injected>>

RegistryNext ==
    \/ Next
    \/ \E a \in DOMAIN agents : Unregister(a)

\* the scenario fleet, with agents leaving the registry
RegistrySpec == InitScenario /\ [][RegistryNext]_vars

\* The message objects a caller builds, keeps and hands to send: a
\* FORWARD_ANNOUNCEMENT with its nested path and best, and a WINNER_DECISION.
OwnMessages ==
    { [message_type |-> "FORWARD_ANNOUNCEMENT", task_id |-> <<"T", "3">>,
       pickup |-> "wh", delivery |-> "e3", weight |-> 3,
       path |-> <<"warehouse", "A">>,
       best |-> [bid |-> VERY_HIGH_BID, holder |-> None],
       obj |-> "o1", path_obj |-> "o2", best_obj |-> "o3"],
      [message_type |-> "WINNER_DECISION", task_id |-> <<"T", "6">>, winner |-> "B",
       pickup |-> "wh", delivery |-> "e6", weight |-> 6,
       best |-> [bid |-> ToBid(0), holder |-> "B"],
       obj |-> "o1", best_obj |-> "o3"] }

\* The caller calls mesh.send("dispatcher", message, sim_time) and keeps the
\* message; these calls count towards the MaxAnnouncements sends of a run.
SendOwn(message, sim_time) ==
    /\ SumOver(announced, TaskIds) + injected < MaxAnnouncements
    /\ message_queue' = send(message_queue, "dispatcher", message, sim_time)
    /\ injected' = injected + 1
    /\ own' = message
    /\ created' = created \cup {[by |-> "dispatcher", msg |-> deepcopy(message)]}
    /\ sent' = <<"dispatcher", deepcopy(message), sim_time>>
    /\ dispatched' = <<>>
    /\ UNCHANGED <<quote, ring, agents, sod_assign_index, announced, wd_count,
                   completed, bid_log, handled, sod_winners>>

\* what the caller does to the message it kept: message["weight"] = 99,
\* message["path"].append("Z"), message["best"]["holder"] = "Z"
Mutations == {"weight", "path", "best"}

\* the identity tag of the object a mutation changes
TagOf(kind) == IF kind = "weight" THEN "obj"
               ELSE IF kind = "path" THEN "path_obj" ELSE "best_obj"

\* object x after the mutation
ApplyMutation(x, kind) ==
    IF kind = "weight" THEN [x EXCEPT !.weight = 99]
    ELSE IF kind = "path" THEN [x EXCEPT !.path = Append(@, "Z")]
    ELSE [x EXCEPT !.best.holder = "Z"]

\* the mutation has been made to object x
Mutated(x, kind) ==
    IF kind = "weight" THEN x.weight = 99
    ELSE IF kind = "path" THEN x.path[Len(x.path)] = "Z"
    ELSE x.best.holder = "Z"

\* x after the caller's mutation of its own message: changed if x is, or holds,
\* the object that is mutated
AfterMutation(x, kind) ==
    IF TagOf(kind) \in DOMAIN x /\ x[TagOf(kind)] = own[TagOf(kind)]
    THEN ApplyMutation(x, kind)
    ELSE x

\* The caller changes the message it kept, once per kind of change.
MutateOwn(kind) ==
    /\ own # <<>>
    /\ TagOf(kind) \in DOMAIN own
    /\ ~Mutated(own, kind)
    /\ own' = ApplyMutation(own, kind)
    /\ message_queue' = [i \in 1..Len(message_queue) |->
                            <<message_queue[i][1],
                              AfterMutation(message_queue[i][2], kind),
                              message_queue[i][3]>>]
    /\ agents' = [a \in DOMAIN agents |->
                     [agents[a] EXCEPT !.inbox =
                         [i \in 1..Len(@) |-> AfterMutation(@[i], kind)]]]
    /\ dispatched' = <<>>
    /\ sent' = <<>>
    /\ UNCHANGED <<quote, ring, sod_assign_index, announced, created, wd_count,
                   completed, bid_log, handled, sod_winners, injected>>

CopyNext ==
    \/ \E message \in OwnMessages, sim_time \in Times : SendOwn(message, sim_time)
    \/ \E kind \in Mutations : MutateOwn(kind)
    \/ \E sim_time \in Ticks : DeliverMessages(sim_time)
    \/ \E a \in DOMAIN agents, current_time \in Ticks : ProcessMessages(a, current_time)

\* the scenario fleet, with a caller that keeps and changes what it has sent
CopySpec == InitScenario /\ [][CopyNext]_vars

-----------------------------------------------------------------------------
(* Properties *)

\* the messages in the fabric queue and in the inboxes
QueuedMessages == {message_queue[i][2] : i \in 1..Len(message_queue)}

InboxMessages ==
    UNION {Range(agents[a].inbox) : a \in DOMAIN agents}

IsKind(m, kind) == Get(m, "message_type", None) = kind

\* some message of task task_id is still queued or in an inbox
InFlight(task_id) ==
    \E m \in QueuedMessages \cup InboxMessages : Get(m, "task_id", None) = task_id

Holder(m) == m.best.holder

\* agent a has task task_id among its assigned tasks
Assigned(a, task_id) ==
    a \in DOMAIN agents /\ has_task(agents[a].assigned_tasks, task_id)

\* the messages of task task_id that completed the ring
CompletedOf(task_id) == {m \in completed : m.task_id = task_id}

\* C1: once the ring traversal of a non-SOD task has completed with a holder in
\* best, the holder eventually has the task among its assigned tasks. Stated on
\* finite runs: when no message of the task is left in the queue or in an inbox
\* (nothing can act on the task any more), the holder has the task.
C1_HolderGetsTask ==
    \A m \in completed :
        (Holder(m) # None /\ ~InFlight(m.task_id)) => Assigned(Holder(m), m.task_id)

\* C2: a task_id announced at most once is never among the assigned tasks of
\* two different agents.
C2_OneAgentPerTask ==
    \A t \in TaskIds :
        announced[t] <= 1 => Cardinality({a \in DOMAIN agents : Assigned(a, t)}) <= 1

\* C2 case: in a ring of three, a task announced once is assigned to an agent
\* after the winner message was relayed through another agent's inbox.
C2_Witness ==
    \E t \in TaskIds, a \in DOMAIN agents :
        /\ announced[t] = 1
        /\ Assigned(a, t)
        /\ Len(ring) = 3
        /\ \E m \in CompletedOf(t) : Holder(m) = a /\ m.path[Len(m.path)] # a

\* C3: the traversal started by one announcement of a task makes the fabric
\* build at most one WINNER_DECISION.
C3_AtMostOneWinnerDecision ==
    \A t \in TaskIds : announced[t] <= 1 => wd_count[t] <= 1

\* C3 case: a completed traversal of a non-SOD task announced once, with its
\* winner message built, in a ring of more than one agent.
C3_Witness ==
    \E t \in TaskIds :
        /\ announced[t] = 1
        /\ wd_count[t] = 1
        /\ CompletedOf(t) # {}
        /\ Len(ring) >= 2

\* the bids the agents logged for task task_id
BidsOf(task_id) == {r \in bid_log : r.task_id = task_id}

\* C4: when the traversal of a non-SOD task completes, every ring agent has
\* computed a bid, best.bid is the minimum of these bids, and best.holder is an
\* agent that computed the minimum, absent only if the minimum is VERY_HIGH_BID.
C4_BestIsMinimum ==
    \A m \in completed :
        announced[m.task_id] = 1 =>
            LET recs == BidsOf(m.task_id)
            IN  /\ {r.agent : r \in recs} = Range(ring)
                /\ \E r \in recs : r.bid = m.best.bid
                /\ \A r \in recs : BidLeq(m.best.bid, r.bid)
                /\ IF Holder(m) = None
                   THEN m.best.bid = VERY_HIGH_BID
                   ELSE \E r \in recs : r.agent = Holder(m) /\ r.bid = m.best.bid

\* C4 case: a completed traversal of a ring of three in which the agents
\* computed different bids and the lowest one is not the first agent's.
C4_Witness ==
    \E m \in completed :
        /\ announced[m.task_id] = 1
        /\ Len(ring) = 3
        /\ Holder(m) \notin {None, ring[1]}
        /\ Cardinality({r.bid : r \in BidsOf(m.task_id)}) >= 2

\* C5: in one traversal of a non-SOD task every ring agent handles the task's
\* FORWARD_ANNOUNCEMENT exactly once before backtrace is triggered (and no agent
\* ever handles it twice).
C5_EachAgentBidsOnce ==
    \A t \in TaskIds :
        announced[t] <= 1 =>
            /\ \A a \in AgentIds : handled[<<a, t>>] <= 1
            /\ CompletedOf(t) # {} => \A a \in Range(ring) : handled[<<a, t>>] = 1

\* C5 case: backtrace was triggered for a task announced once in a ring of three.
C5_Witness ==
    \E t \in TaskIds :
        /\ announced[t] = 1
        /\ CompletedOf(t) # {}
        /\ Len(ring) = 3

\* the FORWARD_ANNOUNCEMENTs built for task task_id, with their builders
ForwardsOf(task_id) ==
    {c \in created : IsKind(c.msg, "FORWARD_ANNOUNCEMENT") /\ c.msg.task_id = task_id}

\* the place of a FORWARD_ANNOUNCEMENT in its traversal: the fabric extends the
\* path and hands the message to the agent, which sends it back
HopRank(c) == 2 * Len(c.msg.path) + (IF c.by = "fabric" THEN 0 ELSE 1)

\* C6: along the successive FORWARD_ANNOUNCEMENTs of one traversal, starting
\* with the seed that carries VERY_HIGH_BID, best.bid never increases.
C6_BestBidNonIncreasing ==
    \A t \in TaskIds :
        announced[t] <= 1 =>
            \A x, y \in ForwardsOf(t) :
                /\ HopRank(x) <= HopRank(y) => BidLeq(y.msg.best.bid, x.msg.best.bid)
                /\ (x.by = "fabric" /\ Len(x.msg.path) = 2) => x.msg.best.bid = VERY_HIGH_BID

\* C6 case: a traversal in which best.bid went down at one hop and a later
\* agent computed a higher bid than the best one it received.
C6_Witness ==
    \E t \in TaskIds :
        /\ announced[t] = 1
        /\ \E x, y \in ForwardsOf(t) :
              HopRank(x) < HopRank(y) /\ BidLess(y.msg.best.bid, x.msg.best.bid)
        /\ \E r \in BidsOf(t) : BidLess(r.best_in.bid, r.bid)

\* no value occurs twice in s
NoDuplicates(s) == \A i, j \in 1..Len(s) : s[i] = s[j] => i = j

\* C7: in every FORWARD_ANNOUNCEMENT queued in the fabric or held in an inbox,
\* no agent id occurs more than once in path and path[0] is "warehouse".
C7_PathWellFormed ==
    \A m \in QueuedMessages \cup InboxMessages :
        IsKind(m, "FORWARD_ANNOUNCEMENT") =>
            /\ Len(m.path) >= 2
            /\ m.path[1] = "warehouse"
            /\ NoDuplicates(m.path)

\* C7 case: an agent of a ring of three has sent on the announcement whose path
\* holds the whole ring.
C7_Witness ==
    \E m \in QueuedMessages :
        /\ IsKind(m, "FORWARD_ANNOUNCEMENT")
        /\ Len(m.path) = 4

\* the WINNER_DECISIONs built by the fabric
WinnerDecisions ==
    {c.msg : c \in {d \in created : d.by = "fabric" /\ IsKind(d.msg, "WINNER_DECISION")}}

\* C8: the winner named in a WINNER_DECISION built by the fabric, by backtrace
\* or by SOD round-robin, is a member of the ring.
C8_WinnerInRing ==
    \A m \in WinnerDecisions : m.winner \in Range(ring)

\* C8 case: the fabric has built a winner message by backtrace and another by
\* round-robin.
C8_Witness ==
    /\ \E m \in WinnerDecisions : "backtrace_route" \in DOMAIN m
    /\ \E m \in WinnerDecisions : "backtrace_route" \notin DOMAIN m

\* C9: an agent with load + weight > capacity when it handles a task's
\* FORWARD_ANNOUNCEMENT does not become best.holder, and the holder a traversal
\* ends with has the capacity for the task.
C9_InfeasibleNeverHolds ==
    /\ \A r \in bid_log :
          r.load + r.weight > r.capacity => r.best_out.holder # r.agent
    /\ \A m \in completed :
          Holder(m) # None =>
              agents[Holder(m)].load + m.weight <= agents[Holder(m)].capacity

\* C9 case: an agent without the capacity handled an announcement that had no
\* holder yet, and the traversal completed.
C9_Witness ==
    \E r \in bid_log :
        /\ r.load + r.weight > r.capacity
        /\ r.best_in.holder = None
        /\ CompletedOf(r.task_id) # {}

\* the agents that computed the bid a completed traversal ended with
LowestBidders(m) == {r.agent : r \in {q \in BidsOf(m.task_id) : q.bid = m.best.bid}}

\* C10: when several ring agents compute the same lowest bid, the winner is the
\* first of them in ring order.
C10_FirstLowestBidderWins ==
    \A m \in completed :
        (announced[m.task_id] = 1 /\ Holder(m) # None) =>
            /\ Holder(m) \in LowestBidders(m)
            /\ \A a \in LowestBidders(m) : IndexOf(ring, Holder(m)) <= IndexOf(ring, a)

\* C10 case: a completed traversal in which two agents computed the lowest bid.
C10_Witness ==
    \E m \in completed :
        /\ announced[m.task_id] = 1
        /\ Holder(m) # None
        /\ Cardinality(LowestBidders(m)) >= 2


\* the ring scenario holds for a task: A bid 100.0, B bid 50.0 and C was refused
\* by has_capacity
ScenarioBids(task_id) ==
    /\ ring = <<"A", "B", "C">>
    /\ \E r \in BidsOf(task_id) : r.agent = "A" /\ r.bid = ToBid(100 * BidUnit)
    /\ \E r \in BidsOf(task_id) : r.agent = "B" /\ r.bid = ToBid(50 * BidUnit)
    /\ \E r \in BidsOf(task_id) :
         r.agent = "C" /\ r.load + r.weight > r.capacity /\ r.bid = VERY_HIGH_BID

\* C11: in the scenario of ring [A, B, C] where A bids 100, B bids 50 and C is
\* infeasible by capacity, the FORWARD_ANNOUNCEMENT that C sends after its turn
\* has path [warehouse, A, B, C] and best.holder B, and every WINNER_DECISION
\* built for the task names B as the winner.
C11_ScenarioOutcome ==
    \A t \in TaskIds :
        ScenarioBids(t) =>
            /\ \A c \in created :
                 (c.by = "C" /\ IsKind(c.msg, "FORWARD_ANNOUNCEMENT") /\ c.msg.task_id = t)
                     => /\ c.msg.path = <<"warehouse", "A", "B", "C">>
                        /\ Holder(c.msg) = "B"
            /\ \E c \in created :
                 c.by = "C" /\ IsKind(c.msg, "FORWARD_ANNOUNCEMENT") /\ c.msg.task_id = t
            /\ \A m \in WinnerDecisions : m.task_id = t => m.winner = "B"

\* the scenario ran to its end: the fabric built the WINNER_DECISION
C11_Witness ==
    \E t \in TaskIds :
        /\ ScenarioBids(t)
        /\ \E m \in WinnerDecisions : m.task_id = t /\ m.winner = "B"
        /\ Assigned("B", t)

\* the WINNER_DECISIONs the backtrace built for a traversal that ended with
\* path [warehouse, A, B, C] and holder B
ScenarioDecisions ==
    {m \in WinnerDecisions :
        /\ "backtrace_route" \in DOMAIN m
        /\ m.winner = "B"
        /\ \E c \in completed :
             /\ c.task_id = m.task_id
             /\ c.path = <<"warehouse", "A", "B", "C">>
             /\ Holder(c) = "B"}

\* C12 (as stated): with final path [warehouse, A, B, C] and holder B, the
\* WINNER_DECISION carries backtrace_route [B, A].
C12_RouteHolderToFront ==
    \A m \in ScenarioDecisions : m.backtrace_route = <<"B", "A">>

\* C12 (amended): with final path [warehouse, A, B, C] and holder B, the
\* WINNER_DECISION carries backtrace_route [C, B]: the path from the holder to
\* its end, reversed.
C12_RouteEndToHolder ==
    \A m \in ScenarioDecisions : m.backtrace_route = <<"C", "B">>

\* a backtrace for that path and holder has been started
C12_Witness == ScenarioDecisions # {}

\* every ring agent has bid on the task and every bid was VERY_HIGH_BID
AllBidsVeryHigh(task_id) ==
    /\ ring # <<>>
    /\ \A a \in Range(ring) : \E r \in BidsOf(task_id) : r.agent = a
    /\ \A r \in BidsOf(task_id) : r.bid = VERY_HIGH_BID

\* C13: when every ring agent returns VERY_HIGH_BID for a task, the traversal
\* still visits all of them and finishes with best.holder absent; no
\* WINNER_DECISION is built for the task and no agent's assigned_tasks gets it.
C13_AllInfeasibleNoWinner ==
    \A t \in TaskIds :
        AllBidsVeryHigh(t) =>
            /\ InFlight(t) \/ CompletedOf(t) # {}
            /\ \A m \in CompletedOf(t) :
                 /\ Holder(m) = None
                 /\ Range(m.path) = Range(ring) \cup {"warehouse"}
            /\ wd_count[t] = 0
            /\ \A m \in WinnerDecisions : m.task_id # t
            /\ \A a \in DOMAIN agents : ~Assigned(a, t)

\* a traversal of two or more agents, all infeasible, has completed
C13_Witness ==
    \E t \in TaskIds :
        /\ Len(ring) >= 2
        /\ AllBidsVeryHigh(t)
        /\ CompletedOf(t) # {}
        /\ ~InFlight(t)

\* the queue holds exactly one entry: a SOD TASK_ANNOUNCEMENT of the task source
OneSodAnnouncementQueued ==
    /\ Len(message_queue) = 1
    /\ message_queue[1][1] = "warehouse"
    /\ IsKind(message_queue[1][2], "TASK_ANNOUNCEMENT")
    /\ startswith(message_queue[1][2].task_id, SOD_PREFIX)

\* C14: when the fabric processes a SOD TASK_ANNOUNCEMENT with a non-empty ring
\* and sod_assign_index = i, it puts exactly one WINNER_DECISION, with winner
\* ring[i mod len(ring)] and best.bid 0.0, into that agent's inbox and nowhere
\* else, sod_assign_index becomes i + 1, and no FORWARD_ANNOUNCEMENT is created.
C14_SodRoundRobinStep ==
    [][ (OneSodAnnouncementQueued /\ message_queue' = <<>> /\ ring # <<>>) =>
          LET i == sod_assign_index
              task_id == message_queue[1][2].task_id
              winner == ring[(i % Len(ring)) + 1]
              inbox == agents'[winner].inbox
              wd == inbox[Len(inbox)]
          IN  /\ sod_assign_index' = i + 1
              /\ Len(inbox) = Len(agents[winner].inbox) + 1
              /\ agents' = [agents EXCEPT ![winner].inbox = Append(@, wd)]
              /\ IsKind(wd, "WINNER_DECISION")
              /\ wd.task_id = task_id
              /\ wd.winner = winner
              /\ wd.best.bid = ToBid(0)
              /\ wd_count' = [wd_count EXCEPT ![task_id] = @ + 1]
              /\ \A c \in created' \ created : c.msg = wd
              /\ message_queue' = <<>>
      ]_vars

\* on ring [A, B] the second SOD task, taken with index 1, went to B and left
\* the index at 2
C14_Witness ==
    /\ ring = <<"A", "B">>
    /\ sod_assign_index = 2
    /\ sod_winners = <<"A", "B">>
    /\ \E k \in 1..Len(agents["B"].inbox) :
         /\ IsKind(agents["B"].inbox[k], "WINNER_DECISION")
         /\ agents["B"].inbox[k].winner = "B"

\* how many of sod_winners[i..j] are agent a
TimesChosen(a, i, j) == Cardinality({k \in i..j : sod_winners[k] = a})

\* C15: over any N consecutive SOD tasks on a ring of R >= 1 members, each member
\* is chosen floor(N / R) or ceil(N / R) times, and the winners follow the ring
\* order cyclically, starting from the index held before the first of them.
C15_SodFairRotation ==
    ring # <<>> =>
        LET R == Len(ring)
        IN  /\ sod_assign_index = Len(sod_winners)
            /\ \A i \in 1..Len(sod_winners) : \A j \in i..Len(sod_winners) :
                 LET N == j - i + 1
                     index_before == i - 1
                 IN  /\ \A a \in Range(ring) :
                          TimesChosen(a, i, j) \in {N \div R, (N + R - 1) \div R}
                     /\ \A k \in i..j :
                          sod_winners[k] = ring[((index_before + (k - i)) % R) + 1]

\* four SOD tasks on a ring of three: the rotation wrapped around
C15_Witness ==
    /\ Len(ring) = 3
    /\ Len(sod_winners) = 4
    /\ TimesChosen("A", 1, 4) = 2
    /\ TimesChosen("B", 1, 4) = 1

\* agent a as VehicleAgent._handle_winner_decision finds it
AgentWorld(a) ==
    [agent |-> agents[a], message_queue |-> message_queue, created |-> created,
     bid_log |-> bid_log, handled |-> handled]

\* C16: an agent's assigned_tasks holds any task_id at most once, and handling
\* the same WINNER_DECISION a second time leaves assigned_tasks as the first
\* handling left it.
C16_AssignedOnce ==
    \A a \in DOMAIN agents :
        /\ \A i, j \in 1..Len(agents[a].assigned_tasks) :
             agents[a].assigned_tasks[i][1] = agents[a].assigned_tasks[j][1] => i = j
        /\ \A m \in WinnerDecisions :
             LET once == agent_handle_winner_decision(AgentWorld(a), m)
                 twice == agent_handle_winner_decision(once, m)
             IN  /\ twice.agent.assigned_tasks = once.agent.assigned_tasks
                 /\ Assigned(a, m.task_id) =>
                        once.agent.assigned_tasks = agents[a].assigned_tasks

\* the winner of a task announced twice has handled both WINNER_DECISIONs
C16_Witness ==
    \E a \in DOMAIN agents : \E t \in TaskIds :
        /\ wd_count[t] = 2
        /\ Assigned(a, t)
        /\ agents[a].inbox = <<>>
        /\ message_queue = <<>>
        /\ \A m \in WinnerDecisions : m.task_id = t => m.winner = a

\* C17: with an empty ring, processing a TASK_ANNOUNCEMENT, SOD or not, puts no
\* message into any inbox or into the queue and leaves sod_assign_index and the
\* agents as they were.
C17_EmptyRingNoEffect ==
    [][ ( /\ ring = <<>>
          /\ message_queue # <<>>
          /\ message_queue' = <<>>
          /\ \A i \in 1..Len(message_queue) :
               IsKind(message_queue[i][2], "TASK_ANNOUNCEMENT") ) =>
          /\ Len(dispatched') = Len(message_queue)
          /\ agents' = agents
          /\ \A a \in DOMAIN agents' : agents'[a].inbox = <<>>
          /\ sod_assign_index' = sod_assign_index
          /\ sod_winners' = sod_winners
          /\ created' = created
          /\ wd_count' = wd_count
          /\ completed' = completed
      ]_vars

\* a fabric without agents has just dispatched a SOD announcement and another one
C17_Witness ==
    /\ ring = <<>>
    /\ message_queue = <<>>
    /\ Len(dispatched) = 2
    /\ \E i \in 1..2 : startswith(dispatched[i][2].task_id, SOD_PREFIX)
    /\ \E i \in 1..2 : ~startswith(dispatched[i][2].task_id, SOD_PREFIX)
    /\ sod_assign_index = 0
    /\ created = {}

\* the kinds MeshSimulator._process_message dispatches
RecognizedKinds == {"TASK_ANNOUNCEMENT", "FORWARD_ANNOUNCEMENT", "WINNER_DECISION"}

\* C18: send enqueues a message only if it is of a recognized kind and carries
\* its required fields; a message of another kind, or one without a required
\* field such as task_id, leaves the queue as it was, so no such message is
\* ever in the queue.
C18_OnlyWellFormedQueued ==
    \A i \in 1..Len(message_queue) :
        /\ Get(message_queue[i][2], "message_type", None) \in RecognizedKinds
        /\ "task_id" \in DOMAIN message_queue[i][2]

\* C18 (amended): send enqueues a message exactly when it carries a
\* message_type; a message without message_type leaves the queue as it was,
\* while a message of a kind the fabric does not dispatch, or one without
\* task_id, is enqueued like any other.
C18_SendChecksMessageType ==
    [][ sent' # <<>> =>
          /\ ("message_type" \in DOMAIN sent'[2]) <=> (message_queue' # message_queue)
          /\ ("message_type" \notin DOMAIN sent'[2]) => (message_queue' = message_queue)
          /\ \A i \in 1..Len(message_queue') :
               "message_type" \in DOMAIN message_queue'[i][2]
      ]_vars

\* a message of another kind is in the queue, and a message without
\* message_type has just been handed to send
C18_Witness ==
    /\ sent # <<>>
    /\ "message_type" \notin DOMAIN sent[2]
    /\ \E i \in 1..Len(message_queue) :
         message_queue[i][2].message_type \notin RecognizedKinds

\* sequence s is the beginning of sequence t
IsPrefix(s, t) == Len(s) <= Len(t) /\ SubSeq(t, 1, Len(s)) = s

\* C19: a send of a message that carries a message_type appends exactly one
\* entry (sender, message, sim_time) at the tail of the queue and changes nothing
\* else; the sends an agent makes while it handles its inbox also only add at
\* the tail.
C19_SendAppendsOneAtTail ==
    [][ /\ (sent' # <<>> /\ "message_type" \in DOMAIN sent'[2]) =>
              /\ message_queue' = Append(message_queue, sent')
              /\ UNCHANGED <<ring, agents, sod_assign_index, created, wd_count,
                             completed, bid_log, handled, sod_winners>>
        /\ message_queue' # <<>> => IsPrefix(message_queue, message_queue')
      ]_vars

\* an entry has just been appended behind another one
C19_Witness ==
    /\ sent # <<>>
    /\ Len(message_queue) >= 2
    /\ message_queue[Len(message_queue)] = sent
    /\ message_queue[1] # sent

\* C20: deliver_messages ends with the queue empty, having dispatched every
\* entry that was queued exactly once and in the order the entries were sent.
C20_DeliverDrainsInOrder ==
    [][ (message_queue # <<>> /\
            (Len(message_queue') < Len(message_queue) \/ dispatched' # <<>>)) =>
          /\ message_queue' = <<>>
          /\ dispatched' = [i \in 1..Len(message_queue) |->
                              <<message_queue[i][1], message_queue[i][2]>>]
      ]_vars

\* a call of deliver_messages has just dispatched two different entries
C20_Witness ==
    /\ Len(dispatched) = 2
    /\ dispatched[1] # dispatched[2]
    /\ message_queue = <<>>

\* the fabric queue and every inbox are empty
Quiescent ==
    /\ message_queue = <<>>
    /\ \A a \in DOMAIN agents : agents[a].inbox = <<>>

\* C21: when deliver_messages and every agent's process_messages are called
\* again and again, the system comes to a state with the fabric queue and all
\* inboxes empty and, announcements having stopped, stays there: no traversal
\* circulates forever.
C21_EventuallyQuiescent == <>[]Quiescent

\* a traversal of three agents has run to its end and everything is drained
C21_Witness ==
    /\ Quiescent
    /\ Len(ring) = 3
    /\ \E m \in completed : Len(m.path) = 4

\* the task with a given task_id
TaskOf(task_id) == CHOOSE task \in AllTasks : task.task_id = task_id

\* the best bid after ring members i.. have bid in ring order on a task that
\* is the only one in the system
RECURSIVE AloneBest(_, _, _)
AloneBest(task_info, i, best) ==
    IF i > Len(ring) THEN best
    ELSE LET bid == compute_bid(agents[ring[i]], task_info, 0)
         IN  AloneBest(task_info, i + 1,
                       IF better_bid(bid, best.bid)
                       THEN [bid |-> bid, holder |-> ring[i]]
                       ELSE best)

\* the agents that hold a task at the end when it is the only task announced:
\* the first ring member for a SOD task, else the holder of the best bid if
\* the backtrace relay reaches it
AloneAssigned(task) ==
    IF ring = <<>> THEN {}
    ELSE IF startswith(task.task_id, SOD_PREFIX)
    THEN {ring[sod_winner_index(0, Len(ring))]}
    ELSE LET best == AloneBest([task_id |-> task.task_id, pickup |-> task.pickup,
                                delivery |-> task.delivery, weight |-> task.weight],
                               1, seed_best)
             route == backtrace_route(<<"warehouse">> \o ring, best.holder)
         IN  IF best.holder = None THEN {}
             ELSE {route[k] : k \in 2..Len(route)} \cap {best.holder}

\* the agents that hold task task_id
AssignedTo(task_id) == {a \in DOMAIN agents : Assigned(a, task_id)}

\* C22 (as stated): for announced tasks with distinct task_ids, the assignments
\* at quiescence are the same for every interleaving of deliver_messages and
\* the agents' process_messages, and every task's winner is the winner it
\* would get if it were the only task.
C22_AssignmentsAsAlone ==
    Quiescent =>
        \A t \in TaskIds :
            AssignedTo(t) = IF announced[t] = 0 THEN {} ELSE AloneAssigned(TaskOf(t))

\* C22 (amended): the same for the tasks that are auctioned round the ring; a
\* SOD task goes to exactly one ring member, which the round-robin index, and
\* so the SOD tasks handled before it, decide.
C22_AuctionedAsAlone ==
    Quiescent =>
        \A t \in TaskIds :
            IF announced[t] = 0 THEN AssignedTo(t) = {}
            ELSE IF startswith(t, SOD_PREFIX)
            THEN ring # <<>> =>
                    /\ Cardinality(AssignedTo(t)) = 1
                    /\ AssignedTo(t) \subseteq Range(sod_winners)
            ELSE AssignedTo(t) = AloneAssigned(TaskOf(t))

\* two auctioned tasks have come to rest on a ring of three, one of them won
C22_Witness ==
    /\ Quiescent
    /\ Len(ring) = 3
    /\ Cardinality({t \in TaskIds : announced[t] = 1 /\ ~startswith(t, SOD_PREFIX)}) = 2
    /\ \E t \in TaskIds : AssignedTo(t) # {} /\ ~startswith(t, SOD_PREFIX)

\* the agent ids the fabric tries to deliver to when it dispatches one entry
DeliveryTargets(sender, msg) ==
    IF IsKind(msg, "TASK_ANNOUNCEMENT")
    THEN IF sender # "warehouse" \/ ring = <<>> THEN {}
         ELSE IF startswith(Get(msg, "task_id", <<>>), SOD_PREFIX)
         THEN {ring[sod_winner_index(sod_assign_index, Len(ring))]}
         ELSE {ring[1]}
    ELSE IF IsKind(msg, "FORWARD_ANNOUNCEMENT")
    THEN LET path == Get(msg, "path", <<>>)
         IN  IF path = <<>> THEN {}
             ELSE LET next_agent == _find_next_in_ring(path[Len(path)], path)
                      route == backtrace_route(path, Holder(msg))
                  IN  IF next_agent # None THEN {next_agent}
                      ELSE IF Holder(msg) = None THEN {}
                      ELSE {route[k] : k \in 2..Len(route)}
    ELSE IF IsKind(msg, "WINNER_DECISION")
    THEN {Get(msg, "winner", "")}
    ELSE {}

\* no registered agent holds a task whose WINNER_DECISIONs all name an agent
\* that is not in the registry
AbsentWinnerTaskUnassigned ==
    \A t \in TaskIds :
        ( /\ wd_count[t] >= 1
          /\ \A m \in WinnerDecisions : m.task_id = t => m.winner \notin DOMAIN agents )
            => \A a \in DOMAIN agents : ~Assigned(a, t)

\* C23: when the fabric dispatches an entry, a delivery to an agent id that is
\* not in the registry changes no inbox and no assigned_tasks (the entry goes
\* nowhere else and no registry entry appears), and when the winner of a task
\* is absent no agent is ever assigned the task.
C23_AbsentReceiverSkipped ==
    [][ /\ (Len(message_queue) = 1 /\ message_queue' = <<>>) =>
              LET targets == DeliveryTargets(message_queue[1][1], message_queue[1][2])
              IN  /\ DOMAIN agents' = DOMAIN agents
                  /\ \A a \in DOMAIN agents : a \notin targets => agents'[a] = agents[a]
                  /\ targets \cap DOMAIN agents = {} => agents' = agents
        /\ AbsentWinnerTaskUnassigned'
      ]_vars

\* the backtrace has just been started for a holder that had left the registry
C23_Witness ==
    /\ Len(dispatched) = 1
    /\ IsKind(dispatched[1][2], "FORWARD_ANNOUNCEMENT")
    /\ Holder(dispatched[1][2]) \in Range(ring) \ DOMAIN agents
    /\ \E m \in WinnerDecisions :
         m.task_id = dispatched[1][2].task_id /\ m.winner = Holder(dispatched[1][2])
    /\ \A a \in DOMAIN agents : ~Assigned(a, dispatched[1][2].task_id)

\* what the caller's messages held when they were handed to send
ContentsAtSend == {c.msg : c \in {d \in created : d.by = "dispatcher"}}

\* what the fabric built from the entries it dispatched
BuiltByFabric == {c.msg : c \in {d \in created : d.by = "fabric"}}

\* C24: a message queued by send is a copy: whatever the sender does to its own
\* message afterwards, to the dict or to the path and best nested in it, the
\* entry in the queue, the entry dispatched by deliver_messages and the
\* messages in the inboxes have the contents of the time of the send.
C24_QueuedMessageIsCopy ==
    /\ \A i \in 1..Len(message_queue) :
         message_queue[i][1] = "dispatcher" => message_queue[i][2] \in ContentsAtSend
    /\ \A i \in 1..Len(dispatched) :
         dispatched[i][1] = "dispatcher" => dispatched[i][2] \in ContentsAtSend
    /\ \A m \in InboxMessages : m \in ContentsAtSend \cup BuiltByFabric
    /\ \A m \in BuiltByFabric : "Z" \notin Range(Get(m, "path", <<>>)) \cup {m.best.holder}

\* the caller has changed the nested path and best of a message that is still
\* in the queue
C24_Witness ==
    /\ own # <<>>
    /\ "path" \in DOMAIN own
    /\ Mutated(own, "path")
    /\ Mutated(own, "best")
    /\ \E i \in 1..Len(message_queue) :
         /\ message_queue[i][1] = "dispatcher"
         /\ message_queue[i][2].task_id = own.task_id
         /\ IsKind(message_queue[i][2], "FORWARD_ANNOUNCEMENT")

\* sequence s is the end of sequence t
IsSuffix(s, t) == Len(s) <= Len(t) /\ SubSeq(t, Len(t) - Len(s) + 1, Len(t)) = s

\* the FORWARD_ANNOUNCEMENTs of an inbox, in inbox order
IsForward(m) == IsKind(m, "FORWARD_ANNOUNCEMENT")
ForwardsIn(inbox) == SelectSeq(inbox, IsForward)

\* C25: a fabric operation never removes or reorders entries of an inbox, it
\* only appends at the tail; an agent's process_messages only removes entries,
\* from the head and of its own inbox (it handles them in inbox order), and
\* appends to no inbox.
C25_InboxOwnership ==
    [][ /\ (message_queue # <<>> /\ message_queue' = <<>>) =>
              \A a \in DOMAIN agents :
                  /\ IsPrefix(agents[a].inbox, agents'[a].inbox)
                  /\ agents' [a] = [agents[a] EXCEPT !.inbox = agents'[a].inbox]
        /\ \A a \in DOMAIN agents :
              Len(agents'[a].inbox) < Len(agents[a].inbox) =>
                  LET added == SubSeq(message_queue', Len(message_queue) + 1,
                                      Len(message_queue'))
                      handled_in_order == ForwardsIn(agents[a].inbox)
                  IN  /\ IsSuffix(agents'[a].inbox, agents[a].inbox)
                      /\ \A b \in DOMAIN agents \ {a} : agents'[b] = agents[b]
                      /\ IsPrefix(message_queue, message_queue')
                      /\ Len(added) = Len(handled_in_order)
                      /\ \A i \in 1..Len(added) :
                           /\ added[i][1] = a
                           /\ added[i][2].task_id = handled_in_order[i].task_id
      ]_vars

\* an agent has just handled two forward announcements of different tasks
C25_Witness ==
    /\ Len(message_queue) = 2
    /\ message_queue[1][1] = message_queue[2][1]
    /\ message_queue[1][1] \in DOMAIN agents
    /\ agents[message_queue[1][1]].inbox = <<>>
    /\ message_queue[1][2].task_id # message_queue[2][2].task_id

\* every message of the inbox is a WINNER_DECISION that names another agent
OnlyDecisionsForOthers(a) ==
    /\ agents[a].inbox # <<>>
    /\ \A i \in 1..Len(agents[a].inbox) :
         /\ IsKind(agents[a].inbox[i], "WINNER_DECISION")
         /\ agents[a].inbox[i].winner # a

\* C26: an agent that processes a WINNER_DECISION whose winner is another agent,
\* as a relay hop of the backtrace does, leaves its assigned_tasks as they were
\* and sends nothing to the fabric.
C26_RelayHopIgnoresDecision ==
    [][ \A a \in DOMAIN agents :
          (OnlyDecisionsForOthers(a) /\ agents'[a].inbox = <<>>) =>
              /\ agents'[a] = [agents[a] EXCEPT !.inbox = <<>>]
              /\ message_queue' = message_queue
              /\ created' = created
      ]_vars

\* a relay hop of a backtrace has processed the decision that the winner has
\* committed
C26_Witness ==
    \E m \in WinnerDecisions : \E a \in DOMAIN agents :
        /\ "backtrace_route" \in DOMAIN m
        /\ a \in Range(m.backtrace_route) \ {m.winner}
        /\ a # m.backtrace_route[1]
        /\ agents[a].inbox = <<>>
        /\ ~Assigned(a, m.task_id)
        /\ Assigned(m.winner, m.task_id)

\* A caller hands a TASK_ANNOUNCEMENT to agent a: agents[a].receive(message).
\* These calls count towards the MaxAnnouncements sends of a run.
ReceiveAnnouncement(a, task) ==
    /\ SumOver(announced, TaskIds) + injected < MaxAnnouncements
    /\ agents' = [agents EXCEPT ![a] = receive(@, TaskAnnouncement(task))]
    /\ injected' = injected + 1
    /\ dispatched' = <<>>
    /\ sent' = <<>>
    /\ UNCHANGED <<quote, own, ring, message_queue, sod_assign_index, announced, created,
                   wd_count, completed, bid_log, handled, sod_winners>>

InboxNext ==
    \/ Next
    \/ \E a \in DOMAIN agents, task \in Tasks : ReceiveAnnouncement(a, task)

\* the scenario fleet, with announcements handed to the agents directly
InboxSpec == InitScenario /\ [][InboxNext]_vars

\* the inbox of agent a holds a TASK_ANNOUNCEMENT
HoldsAnnouncement(a) ==
    \E i \in 1..Len(agents[a].inbox) : IsKind(agents[a].inbox[i], "TASK_ANNOUNCEMENT")

\* agent a as process_messages finds it, its inbox without the TASK_ANNOUNCEMENTs
WithoutAnnouncements(a) ==
    [AgentWorld(a) EXCEPT !.agent.inbox =
        SelectSeq(@, LAMBDA m : ~IsKind(m, "TASK_ANNOUNCEMENT"))]

\* C27: an agent that finds a TASK_ANNOUNCEMENT in its inbox consumes it and
\* changes nothing else: after process_messages the agent, the fabric queue and
\* the bids are what the other messages of the inbox alone make them, and an
\* inbox of announcements only leaves everything but the inbox as it was.
C27_AnnouncementOnlyConsumed ==
    [][ \A a \in DOMAIN agents :
          (HoldsAnnouncement(a) /\ agents'[a].inbox = <<>>) =>
              \E current_time \in Ticks :
                  LET w == process_messages(WithoutAnnouncements(a), current_time)
                  IN  /\ agents'[a] = w.agent
                      /\ message_queue' = w.message_queue
                      /\ created' = w.created
                      /\ bid_log' = w.bid_log
                      /\ (WithoutAnnouncements(a).agent.inbox = <<>> =>
                            /\ agents'[a] = [agents[a] EXCEPT !.inbox = <<>>]
                            /\ message_queue' = message_queue)
      ]_vars

\* an agent that was handed an announcement and nothing else has emptied its
\* inbox, while the fabric has never queued a message
C27_Witness ==
    /\ injected > 0
    /\ created = {}
    /\ \A a \in DOMAIN agents : agents[a].inbox = <<>>

-----------------------------------------------------------------------------
(* compute_bid called directly *)

\* the largest task weight a bid is asked for
MaxWeight == 6

\* (load, capacity) of the vehicle that bids; capacity 0 is a vehicle that
\* carries nothing
BidProfiles == {<<0, 0>>, <<0, 5>>, <<0, 10>>, <<5, 10>>, <<10, 10>>, <<4, 8>>, <<5, 20>>}

\* deadlines around the ends of the time windows, and the times of the calls
DueBys == {5, 10, 11, 110, 111, 310, 311}
BidTimes == {0, 1}

\* the task_info dicts: without due_by, with due_by None, with a deadline
TaskInfos ==
    { [task_id |-> <<"T", "3">>, weight |-> weight] : weight \in 0..MaxWeight }
    \cup { [task_id |-> <<"T", "3">>, weight |-> weight, due_by |-> due_by] :
              weight \in 0..MaxWeight,
              due_by \in {NoNumber} \cup {Some(d) : d \in DueBys} }

\* one vehicle, constructed and loaded, and nothing sent
InitBid ==
    /\ ring = <<"A">>
    /\ \E profile \in BidProfiles :
         agents = [a \in {"A"} |-> VehicleAgent(a, profile[1], profile[2])]
    /\ message_queue = <<>>
    /\ sod_assign_index = 0
    /\ announced = [t \in TaskIds |-> 0]
    /\ created = {}
    /\ wd_count = [t \in TaskIds |-> 0]
    /\ completed = {}
    /\ bid_log = {}
    /\ handled = [p \in AgentIds \X TaskIds |-> 0]
    /\ sod_winners = <<>>
    /\ dispatched = <<>>
    /\ injected = 0
    /\ sent = <<>>
    /\ own = <<>>
    /\ quote = <<>>

\* agents[a].compute_bid(task_info, {"current_time": current_time})
ComputeBid(a, task_info, current_time) ==
    /\ quote' = [agent |-> agents[a], task_info |-> task_info,
                 current_time |-> current_time,
                 bid |-> compute_bid(agents[a], task_info, current_time)]
    /\ dispatched' = <<>>
    /\ sent' = <<>>
    /\ UNCHANGED <<own, ring, agents, message_queue, sod_assign_index, announced,
                   created, wd_count, completed, bid_log, handled, sod_winners,
                   injected>>

BidNext ==
    \E a \in DOMAIN agents, task_info \in TaskInfos, current_time \in BidTimes :
        ComputeBid(a, task_info, current_time)

BidSpec == InitBid /\ [][BidNext]_vars

\* the call recorded in quote was for a task the vehicle cannot carry
QuoteInfeasible ==
    quote.agent.load + quote.task_info.weight > quote.agent.capacity

\* a bid below VERY_HIGH_BID as a number of quarter units
BidQuarters(bid) == bid[1] * Limb + bid[2]

\* C28: compute_bid returns VERY_HIGH_BID whenever load + task.weight > capacity,
\* and whatever the input its result is at most VERY_HIGH_BID.
C28_InfeasibleVeryHighAndClamped ==
    quote # <<>> =>
        /\ QuoteInfeasible => quote.bid = VERY_HIGH_BID
        /\ BidLeq(quote.bid, VERY_HIGH_BID)

\* a loaded vehicle was asked for a task that fits its capacity but not the
\* capacity it has left
C28_Witness ==
    /\ quote # <<>>
    /\ QuoteInfeasible
    /\ quote.agent.load > 0
    /\ quote.task_info.weight <= quote.agent.capacity
    /\ quote.bid = VERY_HIGH_BID

\* C29: for a feasible task compute_bid is base_cost * priority_mult *
\* capacity_penalty * time_penalty, with priority_mult 0.5 for weight >= 5.0,
\* 1.0 for 2.0 <= weight < 5.0 and 1.5 for weight < 2.0, and capacity_penalty
\* 1.0 for capacity <= 0 and 1.0 + 2.0 * load / capacity otherwise.
C29_FeasibleBidIsProduct ==
    (quote # <<>> /\ ~QuoteInfeasible) =>
        LET weight == quote.task_info.weight
            load == quote.agent.load
            capacity == quote.agent.capacity
            \* twice priority_mult and twice time_penalty: the bid in quarter units
            priority_mult2 == IF weight >= 5 THEN 1
                              ELSE IF 2 <= weight /\ weight < 5 THEN 2
                              ELSE 3
            time_penalty2 == _calculate_time_penalty(quote.task_info, _calculate_base_cost,
                                                     quote.current_time)
        IN  /\ quote.bid # VERY_HIGH_BID
            /\ IF capacity <= 0
               THEN BidQuarters(quote.bid) = 100 * priority_mult2 * time_penalty2
               ELSE BidQuarters(quote.bid) * capacity =
                        100 * priority_mult2 * time_penalty2 * (capacity + 2 * load)

\* a loaded vehicle has bid for a heavy task that it can carry
C29_Witness ==
    /\ quote # <<>>
    /\ ~QuoteInfeasible
    /\ quote.agent.load > 0
    /\ quote.task_info.weight >= 5
    /\ quote.bid # VERY_HIGH_BID

\* the call recorded in quote was for a task with a deadline
QuoteHasDeadline ==
    /\ "due_by" \in DOMAIN quote.task_info
    /\ quote.task_info.due_by # NoNumber

\* C30: the time penalty in the bid of a task with due_by is, with slack =
\* due_by - (current_time + base_cost / 10.0), 6.0 for slack <= 0, 3.0 for
\* 0 < slack <= 100, 1.5 for 100 < slack <= 300 and 1.0 for slack > 300; for a
\* task without due_by it is 1.0.
C30_TimePenaltyWindows ==
    (quote # <<>> /\ ~QuoteInfeasible) =>
        LET slack == quote.task_info.due_by[1]
                     - (quote.current_time + 100 \div 10)
            \* twice the penalty
            time_penalty2 == IF ~QuoteHasDeadline THEN 2
                             ELSE IF slack <= 0 THEN 12
                             ELSE IF slack <= 100 THEN 6
                             ELSE IF slack <= 300 THEN 3
                             ELSE 2
            priority_mult2 == _calculate_priority_multiplier(quote.task_info.weight)
            capacity_penalty == _calculate_capacity_penalty(quote.agent)
        IN  /\ _calculate_time_penalty(quote.task_info, _calculate_base_cost,
                                       quote.current_time) = time_penalty2
            /\ BidQuarters(quote.bid) * capacity_penalty[2] =
                   100 * priority_mult2 * time_penalty2 * capacity_penalty[1]

\* a bid for a task whose slack is exactly 100, the end of the 3.0 window
C30_Witness ==
    /\ quote # <<>>
    /\ ~QuoteInfeasible
    /\ QuoteHasDeadline
    /\ quote.task_info.due_by[1] - (quote.current_time + 10) = 100
    /\ BidQuarters(quote.bid) * quote.agent.capacity =
           100 * _calculate_priority_multiplier(quote.task_info.weight) * 6
               * (quote.agent.capacity + 2 * quote.agent.load)

\* the ring MeshSimulator.__init__ takes from the keys of the scenario fleet
ScenarioRing == <<"A", "B", "C">>

\* C31: the ring is in every reachable state the sequence it was at the
\* construction of the fabric: no send, deliver_messages or agent operation
\* adds, removes or reorders a member, not even when an agent has left the
\* agents dict.
C31_RingFixed ==
    ring = ScenarioRing

\* an agent has left the dict, the fabric has run a traversal to its end and
\* assigned a start-of-day task, and the winner of the traversal has committed
C31_Witness ==
    /\ DOMAIN agents # Range(ring)
    /\ \E m \in WinnerDecisions :
         /\ "backtrace_route" \in DOMAIN m
         /\ \E a \in DOMAIN agents : Assigned(a, m.task_id)
    /\ sod_assign_index > 0

\* ["warehouse"] followed by the first n members of the ring
RingPath(n) == <<"warehouse">> \o SubSeq(ring, 1, n)

\* the FORWARD_ANNOUNCEMENTs built by the fabric, and those built by agents
FabricForwards == {c.msg : c \in {d \in created : d.by = "fabric" /\ IsForward(d.msg)}}
AgentForwards == {c.msg : c \in {d \in created : d.by # "fabric" /\ IsForward(d.msg)}}

\* C32: a traversal over a fully registered ring visits the agents in ring
\* order from ring[0]: the seed FORWARD_ANNOUNCEMENT has path ["warehouse",
\* ring[0]] and best {VERY_HIGH_BID, no holder}, each forward extends the path
\* an agent sent by the next ring member, and the path at backtrace is
\* ["warehouse"] followed by the whole ring.
C32_TraversalInRingOrder ==
    /\ \A m \in FabricForwards :
         /\ Len(m.path) \in 2..(Len(ring) + 1)
         /\ m.path = RingPath(Len(m.path) - 1)
         /\ IF Len(m.path) = 2
            THEN m.best = [bid |-> VERY_HIGH_BID, holder |-> None]
            ELSE \E p \in AgentForwards :
                    /\ p.task_id = m.task_id
                    /\ p.best = m.best
                    /\ m.path = Append(p.path, ring[Len(p.path)])
    /\ \A m \in AgentForwards :
         /\ Len(m.path) \in 2..(Len(ring) + 1)
         /\ m.path = RingPath(Len(m.path) - 1)
    /\ \A m \in completed : m.path = RingPath(Len(ring))

\* a traversal of a ring of three has reached its backtrace
C32_Witness ==
    /\ Len(ring) = 3
    /\ DOMAIN agents = Range(ring)
    /\ \E m \in completed :
         /\ m.path = <<"warehouse", ring[1], ring[2], ring[3]>>
         /\ \E s \in FabricForwards : s.task_id = m.task_id /\ Len(s.path) = 2
         /\ \E s \in FabricForwards : s.task_id = m.task_id /\ Len(s.path) = 4

\* the one queued entry is a FORWARD_ANNOUNCEMENT that ends its traversal with
\* a holder: its dispatch starts a backtrace
OneBacktraceQueued ==
    /\ Len(message_queue) = 1
    /\ IsKind(message_queue[1][2], "FORWARD_ANNOUNCEMENT")
    /\ LET msg == message_queue[1][2]
           path == Get(msg, "path", <<>>)
       IN  /\ path # <<>>
           /\ _find_next_in_ring(path[Len(path)], path) = None
           /\ Holder(msg) # None

\* C33: in a backtrace the one WINNER_DECISION is appended to the inbox of
\* every registered agent that follows the first element of backtrace_route,
\* once per such agent, and to no other inbox; every copy carries the whole
\* backtrace_route.
C33_BacktraceRelay ==
    [][ (OneBacktraceQueued /\ message_queue' = <<>>) =>
          LET msg == message_queue[1][2]
              route == backtrace_route(msg.path, Holder(msg))
              followers == {route[k] : k \in 2..Len(route)}
          IN  /\ DOMAIN agents' = DOMAIN agents
              /\ wd_count' = [wd_count EXCEPT ![msg.task_id] = @ + 1]
              /\ \E wd \in WinnerDecisions' :
                    /\ wd.task_id = msg.task_id
                    /\ wd.winner = Holder(msg)
                    /\ wd.backtrace_route = route
                    /\ NoDuplicates(route)
                    /\ \A a \in DOMAIN agents :
                          agents'[a] = IF a \in followers
                                       THEN [agents[a] EXCEPT !.inbox = Append(@, wd)]
                                       ELSE agents[a]
      ]_vars

\* a backtrace whose route has three elements has put the decision into the
\* inboxes of the second and the third and not of the first
C33_Witness ==
    \E m \in WinnerDecisions :
        /\ "backtrace_route" \in DOMAIN m
        /\ Len(m.backtrace_route) = 3
        /\ m \in Range(agents[m.backtrace_route[2]].inbox)
        /\ m \in Range(agents[m.backtrace_route[3]].inbox)
        /\ m \notin Range(agents[m.backtrace_route[1]].inbox)

\* an agent has sent on an announcement of the task whose path holds every
\* ring member: the traversal of the ring is complete
TraversalComplete(task_id) ==
    \E m \in AgentForwards :
        /\ m.task_id = task_id
        /\ Range(ring) \subseteq Range(m.path)

\* C34: for a task that is not a start-of-day task, no WINNER_DECISION exists
\* and no agent has the task_id in assigned_tasks before every ring member
\* appears in the path of the task: commitment never precedes the end of the
\* ring traversal.
C34_NoCommitBeforeTraversalEnds ==
    \A t \in TaskIds :
        ~startswith(t, SOD_PREFIX) =>
            /\ (\E m \in WinnerDecisions : m.task_id = t) => TraversalComplete(t)
            /\ (\E a \in DOMAIN agents : Assigned(a, t)) => TraversalComplete(t)
            /\ wd_count[t] > 0 => TraversalComplete(t)
            /\ \A m \in WinnerDecisions :
                  m.task_id = t =>
                      \E c \in completed :
                          /\ c.task_id = t
                          /\ c.best = m.best
                          /\ Range(ring) \subseteq Range(c.path)

\* in a ring of three the winner of an auctioned task has committed it, after
\* the traversal that passed all three
C34_Witness ==
    /\ Len(ring) = 3
    /\ \E t \in TaskIds :
         /\ ~startswith(t, SOD_PREFIX)
         /\ wd_count[t] = 1
         /\ \E a \in DOMAIN agents : Assigned(a, t)
         /\ TraversalComplete(t)

\* the one queued entry is a WINNER_DECISION
OneDecisionQueued ==
    /\ Len(message_queue) = 1
    /\ IsKind(message_queue[1][2], "WINNER_DECISION")

\* C35: a WINNER_DECISION dispatched from the fabric queue is appended, as it
\* is, to the inbox of the agent named in winner and to no other inbox; the
\* dispatch leaves sod_assign_index as it was, builds no message and leaves
\* nothing in the queue.
C35_DecisionToWinnerOnly ==
    [][ (OneDecisionQueued /\ message_queue' = <<>>) =>
          LET msg == message_queue[1][2]
              winner == Get(msg, "winner", "")
          IN  /\ agents' = IF winner \in DOMAIN agents
                           THEN [agents EXCEPT ![winner].inbox = Append(@, msg)]
                           ELSE agents
              /\ sod_assign_index' = sod_assign_index
              /\ created' = created
              /\ wd_count' = wd_count
              /\ sod_winners' = sod_winners
      ]_vars

\* the fabric has just dispatched a WINNER_DECISION that a caller had sent, and
\* the agent it names holds it
C35_Witness ==
    /\ Len(dispatched) = 1
    /\ IsKind(dispatched[1][2], "WINNER_DECISION")
    /\ LET msg == dispatched[1][2]
       IN  /\ msg.winner \in DOMAIN agents
           /\ agents[msg.winner].inbox # <<>>
           /\ agents[msg.winner].inbox[Len(agents[msg.winner].inbox)] = msg
           /\ \A a \in DOMAIN agents \ {msg.winner} : msg \notin Range(agents[a].inbox)

\* the places of the FORWARD_ANNOUNCEMENTs of task task_id: positions of the
\* fabric queue and of the inboxes
ForwardPlaces(task_id) ==
    {<<"queue", i>> : i \in {j \in 1..Len(message_queue) :
                               /\ IsForward(message_queue[j][2])
                               /\ message_queue[j][2].task_id = task_id}}
    \cup UNION { {<<a, i>> : i \in {j \in 1..Len(agents[a].inbox) :
                                      /\ IsForward(agents[a].inbox[j])
                                      /\ agents[a].inbox[j].task_id = task_id}} :
                 a \in DOMAIN agents }

\* C36: of a task announced once, at most one FORWARD_ANNOUNCEMENT exists at
\* any time in the fabric queue and all inboxes taken together, and none once
\* a WINNER_DECISION for the task has been built.
C36_OneForwardInFlight ==
    \A t \in TaskIds :
        announced[t] <= 1 =>
            /\ Cardinality(ForwardPlaces(t)) <= 1
            /\ wd_count[t] > 0 => ForwardPlaces(t) = {}

\* an auctioned task is decided and none of its forwards is left, while the
\* one forward of another task waits in an inbox
C36_Witness ==
    \E t1, t2 \in TaskIds :
        /\ t1 # t2
        /\ ~startswith(t1, SOD_PREFIX)
        /\ announced[t1] = 1
        /\ announced[t2] = 1
        /\ wd_count[t1] = 1
        /\ ForwardPlaces(t1) = {}
        /\ \E p \in ForwardPlaces(t2) : p[1] # "queue"

-----------------------------------------------------------------------------
(* The same tasks announced with different deadlines *)

\* the deadlines a task is announced with: none, and one in each window of
\* the time penalty
AnnouncedDueBys == {NoNumber, Some(5), Some(50), Some(200), Some(500)}

\* the tasks that are auctioned round the ring
AuctionedTasks == {task \in Tasks : ~startswith(task.task_id, SOD_PREFIX)}

\* The task source announces the task once, with the deadline due_by, and
\* keeps the announcement it has sent.
AnnounceDue(task, due_by, sim_time) ==
    /\ announced[task.task_id] = 0
    /\ SumOver(announced, TaskIds) + injected < MaxAnnouncements
    /\ LET message == TaskAnnouncement([task EXCEPT !.due_by = due_by])
       IN  /\ message_queue' = send(message_queue, "warehouse", message, sim_time)
           /\ own' = message
           /\ sent' = <<"warehouse", message, sim_time>>
    /\ announced' = [announced EXCEPT ![task.task_id] = @ + 1]
    /\ dispatched' = <<>>
    /\ UNCHANGED <<quote, ring, agents, sod_assign_index, created, wd_count, completed,
                   bid_log, handled, sod_winners, injected>>

DueNext ==
    \/ \E task \in AuctionedTasks, due_by \in AnnouncedDueBys, sim_time \in Times :
          AnnounceDue(task, due_by, sim_time)
    \/ \E sim_time \in Ticks : DeliverMessages(sim_time)
    \/ \E a \in DOMAIN agents, current_time \in Ticks : ProcessMessages(a, current_time)

DueSpec == Init /\ [][DueNext]_vars

\* the task_info of a task as the traversal hands it to compute_bid: the
\* fields of the announcement without due_by
TraversalInfo(task_id) ==
    LET task == TaskOf(task_id)
    IN  [task_id |-> task.task_id, pickup |-> task.pickup,
         delivery |-> task.delivery, weight |-> task.weight]

\* the best bid after the first k ring members have bid on the task, whatever
\* deadline it was announced with
RECURSIVE BestAfter(_, _)
BestAfter(task_id, k) ==
    IF k = 0 THEN seed_best
    ELSE LET before == BestAfter(task_id, k - 1)
             bid == compute_bid(agents[ring[k]], TraversalInfo(task_id), 0)
         IN  IF better_bid(bid, before.bid)
             THEN [bid |-> bid, holder |-> ring[k]]
             ELSE before

\* C37: the outcome of the ring traversal of a task does not depend on the
\* due_by of its TASK_ANNOUNCEMENT: whatever deadline the task was announced
\* with, no FORWARD_ANNOUNCEMENT carries a due_by, every bid is the bid of the
\* task without deadline, the best values follow from load, capacity and
\* weight alone, and so does the winner.
C37_OutcomeIgnoresDueBy ==
    /\ \A c \in created : IsForward(c.msg) => "due_by" \notin DOMAIN c.msg
    /\ \A r \in bid_log :
         /\ r.bid = compute_bid(agents[r.agent], TraversalInfo(r.task_id), 0)
         /\ r.best_in = BestAfter(r.task_id, Len(r.path) - 2)
         /\ r.best_out = BestAfter(r.task_id, Len(r.path) - 1)
    /\ \A m \in WinnerDecisions :
         /\ m.best = BestAfter(m.task_id, Len(ring))
         /\ m.winner = BestAfter(m.task_id, Len(ring)).holder

\* a task announced with a deadline that is already missed has been bid on by
\* three agents, decided and committed
C37_Witness ==
    /\ Len(ring) = 3
    /\ own # <<>>
    /\ own.due_by = Some(5)
    /\ Cardinality({r \in bid_log : r.task_id = own.task_id}) = 3
    /\ \E m \in WinnerDecisions :
         /\ m.task_id = own.task_id
         /\ Assigned(m.winner, m.task_id)

\* agent a of the scenario fleet as VehicleAgent.__init__ and the loading made it
AsConstructed(a) == VehicleAgent(a, ScenarioProfiles[a][1], ScenarioProfiles[a][2])

\* C38: no fabric operation and no message handler of an agent changes the
\* load, capacity, battery, position or completed_tasks of any agent; an agent
\* that has committed a task it won has the load it had, and its bids are
\* those of the vehicle as it was constructed and loaded.
C38_VehicleStateUntouched ==
    /\ \A a \in DOMAIN agents :
         /\ agents[a].load = AsConstructed(a).load
         /\ agents[a].capacity = AsConstructed(a).capacity
         /\ agents[a].battery = AsConstructed(a).battery
         /\ agents[a].position = AsConstructed(a).position
         /\ agents[a].completed_tasks = AsConstructed(a).completed_tasks
    /\ \A r \in bid_log :
         r.bid = compute_bid(AsConstructed(r.agent), TraversalInfo(r.task_id), 0)

\* an agent has bid on two auctioned tasks, won both and committed both
C38_Witness ==
    \E a \in DOMAIN agents :
        /\ Len(agents[a].assigned_tasks) = 2
        /\ agents[a].assigned_tasks[1][1] # agents[a].assigned_tasks[2][1]
        /\ \A i \in 1..2 : ~startswith(agents[a].assigned_tasks[i][1], SOD_PREFIX)
        /\ \A i \in 1..2 : \E r \in bid_log :
              r.agent = a /\ r.task_id = agents[a].assigned_tasks[i][1]

\* queue entry e is a start-of-day TASK_ANNOUNCEMENT from the warehouse
IsWarehouseSod(e) ==
    /\ e[1] = "warehouse"
    /\ IsKind(e[2], "TASK_ANNOUNCEMENT")
    /\ startswith(Get(e[2], "task_id", <<>>), SOD_PREFIX)

\* C39: sod_assign_index never decreases and changes only when a start-of-day
\* TASK_ANNOUNCEMENT from the warehouse is dispatched with a ring that is not
\* empty, and then it grows by exactly 1 for each; the dispatch of other
\* announcements, of FORWARD_ANNOUNCEMENTs and of WINNER_DECISIONs, and every
\* other operation, leave it as it was.
C39_SodIndexSteps ==
    [][ /\ sod_assign_index' >= sod_assign_index
        /\ sod_assign_index' =
              IF message_queue # <<>> /\ message_queue' = <<>> /\ ring # <<>>
              THEN sod_assign_index
                   + Cardinality({i \in 1..Len(message_queue) :
                                     IsWarehouseSod(message_queue[i])})
              ELSE sod_assign_index
      ]_vars

\* one call of deliver_messages has dispatched a start-of-day announcement from
\* the warehouse and a FORWARD_ANNOUNCEMENT, and the index has grown by one
C39_Witness ==
    /\ ring # <<>>
    /\ Len(dispatched) = 2
    /\ \E i \in 1..2 : IsWarehouseSod(dispatched[i])
    /\ \E i \in 1..2 : IsKind(dispatched[i][2], "FORWARD_ANNOUNCEMENT")
    /\ sod_assign_index = 1

\* the one queued entry is a TASK_ANNOUNCEMENT from a sender other than the
\* warehouse
OneForeignAnnouncementQueued ==
    /\ Len(message_queue) = 1
    /\ message_queue[1][1] # "warehouse"
    /\ IsKind(message_queue[1][2], "TASK_ANNOUNCEMENT")

\* C40: a TASK_ANNOUNCEMENT queued with a sender other than "warehouse" is
\* removed from the queue by deliver_messages and starts neither a traversal
\* nor a start-of-day assignment: no inbox, no assigned_tasks and not
\* sod_assign_index change, and no message is built.
C40_ForeignAnnouncementDropped ==
    [][ (OneForeignAnnouncementQueued /\ Len(message_queue') < Len(message_queue)) =>
          /\ message_queue' = <<>>
          /\ agents' = agents
          /\ sod_assign_index' = sod_assign_index
          /\ created' = created
          /\ wd_count' = wd_count
          /\ sod_winners' = sod_winners
      ]_vars

\* deliver_messages has just dispatched a start-of-day announcement from
\* another sender, and nothing has come of it
C40_Witness ==
    /\ Len(dispatched) = 1
    /\ dispatched[1][1] # "warehouse"
    /\ IsKind(dispatched[1][2], "TASK_ANNOUNCEMENT")
    /\ startswith(dispatched[1][2].task_id, SOD_PREFIX)
    /\ message_queue = <<>>
    /\ sod_assign_index = 0
    /\ created = {}
    /\ \A a \in DOMAIN agents : agents[a].inbox = <<>> /\ agents[a].assigned_tasks = <<>>

=============================================================================
